---- MODULE Spec2Model ----
(***************************************************************************)
(* State-machine model of the mqtt-to-i3x bridge core:                     *)
(*   - ObjectStore          (dist store/object-store.js)                   *)
(*   - SubscriptionManager  (src/subscriptions/manager.ts)                 *)
(*   - the SSE stream route (api/routes/subscriptions.ts)                  *)
(*   - the change-listener wiring store -> manager (src/server.ts)         *)
(*                                                                         *)
(* An elementId is modelled as the tuple of its dot-separated segments,    *)
(* i.e. as the result of String.split('.'): split and join('.') are        *)
(* mutually inverse between strings and non-empty tuples of dot-free       *)
(* strings, the empty string being the tuple <<"">>.                       *)
(***************************************************************************)
EXTENDS Integers, Sequences, FiniteSets, TLC

\* ---------------------------------------------------------------- bounds
MaxSeq == 3
MaxHwm == 2
MaxEdges == 2
\* addRule calls followed
MaxRules == 3
\* MQTT messages followed
MaxMessages == 3
\* the largest depth / maxDepth a query request is sent with
MaxDepth == 2

\* subscription ids in the order randomUUID() issues them, and the reply
\* objects of successive stream requests
SubOrder == <<"s1", "s2">>
ConnOrder == <<"c1", "c2">>
SubIds == {SubOrder[i] : i \in 1..Len(SubOrder)}
ConnIds == {ConnOrder[i] : i \in 1..Len(ConnOrder)}
NoSub == "none"

\* ------------------------------------------------------------- constants
DEFAULT_QUEUE_HIGH_WATER_MARK == 10000
DEFAULT_MAX_DEPTH == 0

Undefined == "undefined"
\* the JSON null of a placeholder's value (payload values are 1..MaxSeq)
Null == 0
\* an absent elementId (split never yields the empty tuple)
NoId == <<>>
\* the omitted `instance` argument of upsert
NoInstance == [elementId |-> NoId, displayName |-> Undefined, typeId |-> Undefined,
               namespaceUri |-> Undefined, isComposition |-> FALSE]

\* elementIds used as inputs (segments of the dotted id)
IdA == <<"a">>
IdAB == <<"a", "b">>
IdABC == <<"a", "b", "c">>
\* '.x.y': the first segment is the empty string
IdDotXY == <<"", "x", "y">>
ElementIds == {IdA, IdAB, IdABC}
MonitoredIds == {IdA, IdAB}

RelTypes == {"HasParent", "HasChildren"}

\* change listeners: the closure server.ts registers (it forwards to
\* subscriptionManager.notifyChange) and two observer functions
WiredListener == "notifyChange"
ListenerIds == {"L1", "L2"}

VARIABLES
    values, instances, byNamespace, byType, relationships, targetIndex,
    subscriptions, sseConnections,
    conn, issued, nextSeq, hist, ret, instanceDeleted,
    listeners, heard, lastUpserted,
    rules, added, lastMatch, stats, client, state, mqttSubscriptions, broker,
    types, answer

\* the listeners array of the store and what each observer function was called with
listenerVars == <<listeners, heard>>
storeVars == <<values, instances, byNamespace, byType, relationships, targetIndex,
               instanceDeleted, listeners, heard, lastUpserted>>
subVars == <<subscriptions, sseConnections, conn, issued, hist>>
\* the mapping engine, the message handler's counters, the MQTT client wrapper
\* with the broker's view of its session, the type catalogue of the store, and
\* the answer of the last admin or query request
engineVars == <<rules, added, lastMatch>>
mqttVars == <<client, state, mqttSubscriptions, broker>>
bridgeVars == <<rules, added, lastMatch, stats, client, state, mqttSubscriptions, broker,
                types, answer>>
\* the store, its listeners and the subscription manager
coreVars == <<values, instances, byNamespace, byType, relationships, targetIndex,
              subscriptions, sseConnections, conn, issued, nextSeq, hist,
              instanceDeleted, listeners, heard, lastUpserted>>
vars == <<values, instances, byNamespace, byType, relationships, targetIndex,
          subscriptions, sseConnections, conn, issued, nextSeq, hist, ret,
          instanceDeleted, listeners, heard, lastUpserted,
          rules, added, lastMatch, stats, client, state, mqttSubscriptions, broker,
          types, answer>>

\* ------------------------------------------------------- Map<K,V> helpers
MapHas(m, k) == k \in DOMAIN m
MapSet(m, k, v) == [x \in (DOMAIN m) \cup {k} |-> IF x = k THEN v ELSE m[x]]
MapDelete(m, k) == [x \in (DOMAIN m) \ {k} |-> m[x]]
EmptyMap == [x \in {} |-> 0]

\* Array.prototype.shift: removes the first element, a no-op on []
Shift(q) == IF Len(q) = 0 THEN q ELSE Tail(q)

\* Array.prototype.some(r => r = e)
SeqHas(s, e) == \E i \in 1..Len(s) : s[i] = e

\* ============================================================ ObjectStore
\* The store as one record, threaded through the methods below.
Store == [values |-> values, instances |-> instances,
          byNamespace |-> byNamespace, byType |-> byType,
          relationships |-> relationships, targetIndex |-> targetIndex]

Edge(targetId, typeId) == [targetElementId |-> targetId, relationshipTypeId |-> typeId]

\* elementId.split('.') then slice(0, -1).join('.'); undefined for one segment
inferParentId(elementId) ==
    IF Len(elementId) <= 1 THEN NoId
    ELSE SubSeq(elementId, 1, Len(elementId) - 1)

\* JavaScript truthiness of an inferred parent id: undefined and '' are falsy
Truthy(id) == id # NoId /\ id # <<"">>

addToIndex(index, key, elementId) ==
    MapSet(index, key, (IF MapHas(index, key) THEN index[key] ELSE {}) \cup {elementId})

removeFromIndex(index, key, elementId) ==
    IF MapHas(index, key)
    THEN IF index[key] \ {elementId} = {}
         THEN MapDelete(index, key)
         ELSE MapSet(index, key, index[key] \ {elementId})
    ELSE index

\* sources.delete(sourceId) on targetIndex.get(targetId), erasing an empty entry
dropSource(tIndex, targetId, sourceId) == removeFromIndex(tIndex, targetId, sourceId)

\* mutant: the edge is pushed without the duplicate test
addRelationship_NoDedupe(S, sourceId, targetId, typeId) ==
    LET rels == IF MapHas(S.relationships, sourceId) THEN S.relationships[sourceId] ELSE <<>>
    IN [S EXCEPT !.relationships = MapSet(S.relationships, sourceId,
                                            Append(rels, Edge(targetId, typeId))),
                 !.targetIndex = addToIndex(S.targetIndex, targetId, sourceId)]

addRelationship(S, sourceId, targetId, typeId) ==
    LET rels == IF MapHas(S.relationships, sourceId) THEN S.relationships[sourceId] ELSE <<>>
    IN IF SeqHas(rels, Edge(targetId, typeId))
       THEN S
       ELSE [S EXCEPT !.relationships = MapSet(S.relationships, sourceId,
                                               Append(rels, Edge(targetId, typeId))),
                      !.targetIndex = addToIndex(S.targetIndex, targetId, sourceId)]

getRelationships(S, elementId, typeId) ==
    IF ~MapHas(S.relationships, elementId) THEN <<>>
    ELSE IF typeId = Undefined THEN S.relationships[elementId]
    ELSE LET OfType(r) == r.relationshipTypeId = typeId
         IN SelectSeq(S.relationships[elementId], OfType)

\* mutant: the source is dropped from the reverse set without the stillPoints test
removeRelationship_AlwaysDrops(S, sourceId, targetId, typeId) ==
    IF ~MapHas(S.relationships, sourceId) THEN S
    ELSE LET rels == S.relationships[sourceId]
             Keep(r) == IF typeId # Undefined
                        THEN ~(r.targetElementId = targetId /\ r.relationshipTypeId = typeId)
                        ELSE r.targetElementId # targetId
             filtered == SelectSeq(rels, Keep)
         IN IF Len(filtered) = Len(rels) THEN S
            ELSE [S EXCEPT !.relationships = IF Len(filtered) = 0
                                             THEN MapDelete(S.relationships, sourceId)
                                             ELSE MapSet(S.relationships, sourceId, filtered),
                           !.targetIndex = dropSource(S.targetIndex, targetId, sourceId)]

\* removeRelationship: the store after the call
removeRelationship(S, sourceId, targetId, typeId) ==
    IF ~MapHas(S.relationships, sourceId) THEN S
    ELSE LET rels == S.relationships[sourceId]
             Keep(r) == IF typeId # Undefined
                        THEN ~(r.targetElementId = targetId /\ r.relationshipTypeId = typeId)
                        ELSE r.targetElementId # targetId
             filtered == SelectSeq(rels, Keep)
             stillPoints == \E i \in 1..Len(filtered) : filtered[i].targetElementId = targetId
         IN IF Len(filtered) = Len(rels) THEN S
            ELSE [S EXCEPT !.relationships = IF Len(filtered) = 0
                                             THEN MapDelete(S.relationships, sourceId)
                                             ELSE MapSet(S.relationships, sourceId, filtered),
                           !.targetIndex = IF stillPoints THEN S.targetIndex
                                           ELSE dropSource(S.targetIndex, targetId, sourceId)]

removeRelationshipsByType(S, elementId, typeId) ==
    IF ~MapHas(S.relationships, elementId) THEN S
    ELSE LET rels == S.relationships[elementId]
             Gone(r) == r.relationshipTypeId = typeId
             Stay(r) == r.relationshipTypeId # typeId
             toRemove == SelectSeq(rels, Gone)
             remaining == SelectSeq(rels, Stay)
             \* targets of removed edges that no remaining edge points to
             lost == {toRemove[i].targetElementId : i \in 1..Len(toRemove)}
                       \ {remaining[i].targetElementId : i \in 1..Len(remaining)}
         IN IF Len(toRemove) = 0 THEN S
            ELSE [S EXCEPT !.relationships = IF Len(remaining) = 0
                                             THEN MapDelete(S.relationships, elementId)
                                             ELSE MapSet(S.relationships, elementId, remaining),
                           !.targetIndex =
                               [t \in {u \in DOMAIN S.targetIndex :
                                          ~(u \in lost /\ S.targetIndex[u] \ {elementId} = {})} |->
                                   IF t \in lost THEN S.targetIndex[t] \ {elementId}
                                   ELSE S.targetIndex[t]]]

\* mutant: only the outgoing edges of the element are cleared
clearRelationships_OutgoingOnly(S, elementId) ==
    LET hasOut == MapHas(S.relationships, elementId)
        outTargets == IF hasOut
                      THEN {S.relationships[elementId][i].targetElementId :
                               i \in 1..Len(S.relationships[elementId])}
                      ELSE {}
        ti1 == [t \in {u \in DOMAIN S.targetIndex :
                          ~(u \in outTargets /\ S.targetIndex[u] \ {elementId} = {})} |->
                   IF t \in outTargets THEN S.targetIndex[t] \ {elementId}
                   ELSE S.targetIndex[t]]
        rel1 == IF hasOut THEN MapDelete(S.relationships, elementId) ELSE S.relationships
    IN [S EXCEPT !.relationships = rel1, !.targetIndex = ti1]

clearRelationships(S, elementId) ==
    LET hasOut == MapHas(S.relationships, elementId)
        outTargets == IF hasOut
                      THEN {S.relationships[elementId][i].targetElementId :
                               i \in 1..Len(S.relationships[elementId])}
                      ELSE {}
        \* first loop: remove elementId from the reverse set of each outgoing target
        ti1 == [t \in {u \in DOMAIN S.targetIndex :
                          ~(u \in outTargets /\ S.targetIndex[u] \ {elementId} = {})} |->
                   IF t \in outTargets THEN S.targetIndex[t] \ {elementId}
                   ELSE S.targetIndex[t]]
        rel1 == IF hasOut THEN MapDelete(S.relationships, elementId) ELSE S.relationships
        \* second loop: filter the forward lists of the sources still indexed for elementId
        hasIn == MapHas(ti1, elementId)
        incoming == IF hasIn THEN ti1[elementId] ELSE {}
        NotTo(r) == r.targetElementId # elementId
        rel2 == [s \in {u \in DOMAIN rel1 :
                           ~(u \in incoming /\ Len(SelectSeq(rel1[u], NotTo)) = 0)} |->
                    IF s \in incoming THEN SelectSeq(rel1[s], NotTo) ELSE rel1[s]]
        ti2 == IF hasIn THEN MapDelete(ti1, elementId) ELSE ti1
    IN [S EXCEPT !.relationships = rel2, !.targetIndex = ti2]

getParentId(S, elementId) ==
    LET rels == getRelationships(S, elementId, "HasParent")
    IN IF Len(rels) > 0 THEN rels[1].targetElementId ELSE NoId

\* mutant: any source indexed for the element counts as a child
hasChildren_AnySource(S, elementId) ==
    /\ MapHas(S.targetIndex, elementId)
    /\ S.targetIndex[elementId] # {}

hasChildren(S, elementId) ==
    /\ MapHas(S.targetIndex, elementId)
    /\ \E sourceId \in S.targetIndex[elementId] :
          LET rels == getRelationships(S, sourceId, "HasParent")
          IN \E i \in 1..Len(rels) : rels[i].targetElementId = elementId

PlaceholderInstance(parentId, childNamespaceUri) ==
    [elementId |-> parentId, displayName |-> parentId[Len(parentId)],
     typeId |-> "Placeholder", namespaceUri |-> childNamespaceUri, isComposition |-> FALSE]

PlaceholderValue(parentId) ==
    [elementId |-> parentId, value |-> Null, quality |-> "uncertain"]

RECURSIVE ensureParentExists(_, _, _)
\* mutant: a new placeholder is not linked to its own parent
ensureParentExists_NoLinks(S, parentId, childNamespaceUri) ==
    IF MapHas(S.instances, parentId) THEN S
    ELSE LET placeholder == PlaceholderInstance(parentId, childNamespaceUri)
             S1 == [S EXCEPT !.values = MapSet(S.values, parentId, PlaceholderValue(parentId)),
                             !.instances = MapSet(S.instances, parentId, placeholder),
                             !.byNamespace = addToIndex(S.byNamespace, placeholder.namespaceUri, parentId),
                             !.byType = addToIndex(S.byType, placeholder.typeId, parentId)]
             grandparentId == inferParentId(parentId)
         IN IF Truthy(grandparentId)
            THEN ensureParentExists(S1, grandparentId, childNamespaceUri)
            ELSE S1

\* mutant: the placeholder is stored without recursing to the grandparent
ensureParentExists_NoRecursion(S, parentId, childNamespaceUri) ==
    IF MapHas(S.instances, parentId) THEN S
    ELSE LET placeholder == PlaceholderInstance(parentId, childNamespaceUri)
         IN [S EXCEPT !.values = MapSet(S.values, parentId, PlaceholderValue(parentId)),
                      !.instances = MapSet(S.instances, parentId, placeholder),
                      !.byNamespace = addToIndex(S.byNamespace, placeholder.namespaceUri, parentId),
                      !.byType = addToIndex(S.byType, placeholder.typeId, parentId)]

ensureParentExists(S, parentId, childNamespaceUri) ==
    IF MapHas(S.instances, parentId) THEN S
    ELSE LET placeholder == PlaceholderInstance(parentId, childNamespaceUri)
             S1 == [S EXCEPT !.values = MapSet(S.values, parentId, PlaceholderValue(parentId)),
                             !.instances = MapSet(S.instances, parentId, placeholder),
                             !.byNamespace = addToIndex(S.byNamespace, placeholder.namespaceUri, parentId),
                             !.byType = addToIndex(S.byType, placeholder.typeId, parentId)]
             grandparentId == inferParentId(parentId)
         IN IF Truthy(grandparentId)
            THEN LET S2 == ensureParentExists(S1, grandparentId, childNamespaceUri)
                     S3 == addRelationship(S2, parentId, grandparentId, "HasParent")
                 IN addRelationship(S3, grandparentId, parentId, "HasChildren")
            ELSE S1

\* mutant: the previous instance is not removed from the namespace/type indices
upsertStore_KeepsOldIndex(S, elementId, value, instance) ==
    LET S0 == [S EXCEPT !.values = MapSet(S.values, elementId, value)]
    IN IF instance = NoInstance THEN S0
       ELSE LET S1 == [S0 EXCEPT !.instances = MapSet(S0.instances, elementId, instance),
                                 !.byNamespace = addToIndex(S0.byNamespace, instance.namespaceUri, elementId),
                                 !.byType = addToIndex(S0.byType, instance.typeId, elementId)]
                parentId == inferParentId(elementId)
            IN IF Truthy(parentId)
               THEN LET S2 == ensureParentExists(S1, parentId, instance.namespaceUri)
                        S3 == removeRelationshipsByType(S2, elementId, "HasParent")
                        S4 == addRelationship(S3, elementId, parentId, "HasParent")
                    IN addRelationship(S4, parentId, elementId, "HasChildren")
               ELSE S1

\* mutant: all edges of the element are cleared before it is linked to its parent
upsertStore_ClearsEdges(S, elementId, value, instance) ==
    LET S0 == [S EXCEPT !.values = MapSet(S.values, elementId, value)]
    IN IF instance = NoInstance THEN S0
       ELSE LET hadOld == MapHas(S0.instances, elementId)
                ns0 == IF hadOld
                       THEN removeFromIndex(S0.byNamespace, S0.instances[elementId].namespaceUri, elementId)
                       ELSE S0.byNamespace
                ty0 == IF hadOld
                       THEN removeFromIndex(S0.byType, S0.instances[elementId].typeId, elementId)
                       ELSE S0.byType
                S1 == [S0 EXCEPT !.instances = MapSet(S0.instances, elementId, instance),
                                 !.byNamespace = addToIndex(ns0, instance.namespaceUri, elementId),
                                 !.byType = addToIndex(ty0, instance.typeId, elementId)]
                parentId == inferParentId(elementId)
            IN IF Truthy(parentId)
               THEN LET S2 == ensureParentExists(S1, parentId, instance.namespaceUri)
                        S3 == clearRelationships(S2, elementId)
                        S4 == addRelationship(S3, elementId, parentId, "HasParent")
                    IN addRelationship(S4, parentId, elementId, "HasChildren")
               ELSE S1

\* the store part of upsert (lines 27-48); the listener loop is in the Upsert action
upsertStore(S, elementId, value, instance) ==
    LET S0 == [S EXCEPT !.values = MapSet(S.values, elementId, value)]
    IN IF instance = NoInstance THEN S0
       ELSE LET hadOld == MapHas(S0.instances, elementId)
                ns0 == IF hadOld
                       THEN removeFromIndex(S0.byNamespace, S0.instances[elementId].namespaceUri, elementId)
                       ELSE S0.byNamespace
                ty0 == IF hadOld
                       THEN removeFromIndex(S0.byType, S0.instances[elementId].typeId, elementId)
                       ELSE S0.byType
                S1 == [S0 EXCEPT !.instances = MapSet(S0.instances, elementId, instance),
                                 !.byNamespace = addToIndex(ns0, instance.namespaceUri, elementId),
                                 !.byType = addToIndex(ty0, instance.typeId, elementId)]
                parentId == inferParentId(elementId)
            IN IF Truthy(parentId)
               THEN LET S2 == ensureParentExists(S1, parentId, instance.namespaceUri)
                        S3 == removeRelationshipsByType(S2, elementId, "HasParent")
                        S4 == addRelationship(S3, elementId, parentId, "HasParent")
                    IN addRelationship(S4, parentId, elementId, "HasChildren")
               ELSE S1

\* elementId is a dot-prefix of id and shorter than it
IsAncestorId(elementId, id) ==
    Len(elementId) < Len(id) /\ SubSeq(id, 1, Len(elementId)) = elementId

\* mutant: delete also removes the values and instances of the descendants
deleteStore_Cascade(S, elementId) ==
    LET Gone(e) == e = elementId \/ IsAncestorId(elementId, e)
        S2 == clearRelationships(S, elementId)
    IN [S2 EXCEPT !.values = [e \in {d \in DOMAIN S.values : ~Gone(d)} |-> S.values[e]],
                  !.instances = [e \in {d \in DOMAIN S.instances : ~Gone(d)} |-> S.instances[e]],
                  !.byNamespace = [k \in {n \in DOMAIN S.byNamespace :
                                            \E e \in S.byNamespace[n] : ~Gone(e)} |->
                                     {e \in S.byNamespace[k] : ~Gone(e)}],
                  !.byType = [k \in {n \in DOMAIN S.byType :
                                       \E e \in S.byType[n] : ~Gone(e)} |->
                                {e \in S.byType[k] : ~Gone(e)}]]

deleteStore(S, elementId) ==
    LET had == MapHas(S.instances, elementId)
        S1 == IF had
              THEN [S EXCEPT !.byNamespace = removeFromIndex(S.byNamespace, S.instances[elementId].namespaceUri, elementId),
                             !.byType = removeFromIndex(S.byType, S.instances[elementId].typeId, elementId),
                             !.instances = MapDelete(S.instances, elementId)]
              ELSE S
        S2 == clearRelationships(S1, elementId)
    IN [S2 EXCEPT !.values = MapDelete(S2.values, elementId)]

clearStore(S) ==
    [values |-> EmptyMap, instances |-> EmptyMap, byNamespace |-> EmptyMap,
     byType |-> EmptyMap, relationships |-> EmptyMap, targetIndex |-> EmptyMap]

SetStore(S) ==
    /\ values' = S.values
    /\ instances' = S.instances
    /\ byNamespace' = S.byNamespace
    /\ byType' = S.byType
    /\ relationships' = S.relationships
    /\ targetIndex' = S.targetIndex

\* ===================================================== SubscriptionManager
\* inputs of create(): the options object; an absent key is an omitted option
HwmInputs == 0..MaxHwm
CreateOptions ==
    {EmptyMap} \cup
    {[queueHighWaterMark |-> h, monitoredItems |-> <<IdA>>] : h \in HwmInputs}

\* new Set(array)
ToSet(arr) == {arr[i] : i \in 1..Len(arr)}

NewSubscription(options) ==
    [monitoredItems |-> IF "monitoredItems" \in DOMAIN options
                        THEN ToSet(options.monitoredItems) ELSE {},
     maxDepth |-> IF "maxDepth" \in DOMAIN options
                  THEN options.maxDepth ELSE DEFAULT_MAX_DEPTH,
     pendingQueue |-> <<>>,
     queueHighWaterMark |-> IF "queueHighWaterMark" \in DOMAIN options
                            THEN options.queueHighWaterMark
                            ELSE DEFAULT_QUEUE_HIGH_WATER_MARK]

\* what the last call returned, kept for the calls whose result is observed:
\* the call, its subscription id, whether it found its target, the values returned
Ret(op, id, ok, vals) == [op |-> op, id |-> id, ok |-> ok, vals |-> vals]
NoRet == Ret("none", NoSub, TRUE, <<>>)

\* observation of one subscription: the values notifyChange enqueued for it
\* since it was created or last drained by sync, in arrival order
NewHist == <<>>

\* mutant: a full queue rejects the new value instead of evicting the oldest
Enqueue_DropNewest(queue, value, hwm) ==
    IF Len(queue) >= hwm /\ Len(queue) > 0 THEN queue ELSE Append(queue, value)

\* mutant: unshift instead of push
Enqueue_Unshift(queue, value, hwm) ==
    <<value>> \o (IF Len(queue) >= hwm THEN Shift(queue) ELSE queue)

\* notifyChange lines 92-95: drop the oldest when the mark is reached, then push
Enqueue(queue, value, hwm) ==
    Append(IF Len(queue) >= hwm THEN Shift(queue) ELSE queue, value)

\* the SSE payload of one value (quality ?? 'Good')
Frame(value) ==
    [elementId |-> value.elementId, value |-> value.value,
     quality |-> IF value.quality = Undefined THEN "Good" ELSE value.quality]

\* create(): a fresh UUID is never one that was issued before; at most `limit`
\* subscriptions are created in one run
Create(options, limit) ==
    LET subscriptionId == SubOrder[Cardinality(issued) + 1]
    IN /\ Cardinality(issued) < limit
       /\ subscriptions' = MapSet(subscriptions, subscriptionId, NewSubscription(options))
       /\ issued' = issued \cup {subscriptionId}
       /\ hist' = MapSet(hist, subscriptionId, NewHist)
       /\ ret' = NoRet
       /\ UNCHANGED <<sseConnections, conn, nextSeq>>
       /\ UNCHANGED storeVars
       /\ UNCHANGED bridgeVars

\* mutant: the subscription is removed but its SSE binding is kept
delete_KeepsBinding(subscriptionId) ==
    /\ subscriptions' = MapDelete(subscriptions, subscriptionId)
    /\ hist' = MapDelete(hist, subscriptionId)
    /\ UNCHANGED <<sseConnections, conn, issued, nextSeq>>
    /\ UNCHANGED storeVars
    /\ UNCHANGED bridgeVars

\* delete(): sse.raw.end() on the attached reply, drop binding and subscription
delete(subscriptionId) ==
    /\ conn' = IF MapHas(sseConnections, subscriptionId)
               THEN [conn EXCEPT ![sseConnections[subscriptionId]].st = "ended"]
               ELSE conn
    /\ sseConnections' = MapDelete(sseConnections, subscriptionId)
    /\ subscriptions' = MapDelete(subscriptions, subscriptionId)
    /\ hist' = MapDelete(hist, subscriptionId)
    /\ UNCHANGED <<issued, nextSeq>>
    /\ UNCHANGED storeVars
    /\ UNCHANGED bridgeVars

Delete(subscriptionId) ==
    /\ delete(subscriptionId)
    /\ ret' = NoRet

register(subscriptionId, elementIds) ==
    /\ subscriptions' = IF MapHas(subscriptions, subscriptionId)
                        THEN [subscriptions EXCEPT ![subscriptionId].monitoredItems =
                                 @ \cup ToSet(elementIds)]
                        ELSE subscriptions
    /\ UNCHANGED <<sseConnections, conn, issued, nextSeq, hist>>
    /\ UNCHANGED storeVars
    /\ UNCHANGED bridgeVars

Register(subscriptionId, elementIds) ==
    /\ register(subscriptionId, elementIds)
    /\ ret' = NoRet

\* mutant: unregister also drops what is queued
unregister_ClearsQueue(subscriptionId, elementIds) ==
    /\ subscriptions' = IF MapHas(subscriptions, subscriptionId)
                        THEN [subscriptions EXCEPT ![subscriptionId].monitoredItems =
                                 @ \ ToSet(elementIds),
                                                   ![subscriptionId].pendingQueue = <<>>]
                        ELSE subscriptions
    /\ UNCHANGED <<sseConnections, conn, issued, nextSeq, hist>>
    /\ UNCHANGED storeVars
    /\ UNCHANGED bridgeVars

unregister(subscriptionId, elementIds) ==
    /\ subscriptions' = IF MapHas(subscriptions, subscriptionId)
                        THEN [subscriptions EXCEPT ![subscriptionId].monitoredItems =
                                 @ \ ToSet(elementIds)]
                        ELSE subscriptions
    /\ UNCHANGED <<sseConnections, conn, issued, nextSeq, hist>>
    /\ UNCHANGED storeVars
    /\ UNCHANGED bridgeVars

Unregister(subscriptionId, elementIds) ==
    /\ unregister(subscriptionId, elementIds)
    /\ ret' = NoRet

\* mutant: slice(0) instead of splice(0), the queue is returned but not emptied
Sync_NoDrain(subscriptionId) ==
    /\ IF MapHas(subscriptions, subscriptionId)
       THEN /\ ret' = Ret("sync", subscriptionId, TRUE, subscriptions[subscriptionId].pendingQueue)
            /\ UNCHANGED <<subscriptions, hist>>
       ELSE /\ UNCHANGED <<subscriptions, hist>>
            /\ ret' = Ret("sync", subscriptionId, FALSE, <<>>)
    /\ UNCHANGED <<sseConnections, conn, issued, nextSeq>>
    /\ UNCHANGED storeVars
    /\ UNCHANGED bridgeVars

\* sync(): pendingQueue.splice(0) empties the queue and returns what it held
Sync(subscriptionId) ==
    /\ IF MapHas(subscriptions, subscriptionId)
       THEN LET pending == subscriptions[subscriptionId].pendingQueue
            IN /\ subscriptions' = [subscriptions EXCEPT ![subscriptionId].pendingQueue = <<>>]
               /\ hist' = [hist EXCEPT ![subscriptionId] = <<>>]
               /\ ret' = Ret("sync", subscriptionId, TRUE, pending)
       ELSE /\ UNCHANGED <<subscriptions, hist>>
            /\ ret' = Ret("sync", subscriptionId, FALSE, <<>>)
    /\ UNCHANGED <<sseConnections, conn, issued, nextSeq>>
    /\ UNCHANGED storeVars
    /\ UNCHANGED bridgeVars

\* mutant: the reply is bound without looking the subscription up
attachSse_Unchecked(subscriptionId, reply) ==
    /\ conn' = [c \in ConnIds |->
                  IF c = reply THEN [sub |-> subscriptionId, st |-> "open", frames |-> <<>>]
                  ELSE IF MapHas(sseConnections, subscriptionId) /\ c = sseConnections[subscriptionId]
                       THEN [conn[c] EXCEPT !.st = "ended"]
                       ELSE conn[c]]
    /\ sseConnections' = MapSet(sseConnections, subscriptionId, reply)

\* attachSse(): nothing for an absent subscription (it returns false); else
\* end the reply bound before, then bind the new one
attachSse(subscriptionId, reply) ==
    IF ~MapHas(subscriptions, subscriptionId)
    THEN UNCHANGED <<sseConnections, conn>>
    ELSE /\ conn' = [c \in ConnIds |->
                       IF c = reply THEN [sub |-> subscriptionId, st |-> "open", frames |-> <<>>]
                       ELSE IF MapHas(sseConnections, subscriptionId) /\ c = sseConnections[subscriptionId]
                            THEN [conn[c] EXCEPT !.st = "ended"]
                            ELSE conn[c]]
         /\ sseConnections' = MapSet(sseConnections, subscriptionId, reply)

detachSse(subscriptionId) ==
    sseConnections' = MapDelete(sseConnections, subscriptionId)

\* GET /subscriptions/:id/stream: 404 for an absent subscription, else attach the
\* reply of this request (a new connection) and register its close handler
stream(subscriptionId) ==
    LET used == Cardinality({c \in ConnIds : conn[c].st # "fresh"})
        reply == ConnOrder[used + 1]
    IN /\ used < Len(ConnOrder)
       /\ IF MapHas(subscriptions, subscriptionId)
          THEN attachSse(subscriptionId, reply)
          ELSE UNCHANGED <<sseConnections, conn>>
       /\ UNCHANGED <<subscriptions, issued, nextSeq, hist>>
       /\ UNCHANGED storeVars
       /\ UNCHANGED bridgeVars

Stream(subscriptionId) ==
    /\ stream(subscriptionId)
    /\ ret' = NoRet

\* request.raw.on('close'): the handler registered by the stream route for the
\* connection `reply`; it detaches whatever is bound to the subscription id
CloseEvent(reply) ==
    /\ conn[reply].st \in {"open", "ended", "failed"}
    /\ conn' = [conn EXCEPT ![reply].st = "closed"]
    /\ detachSse(conn[reply].sub)
    /\ ret' = NoRet
    /\ UNCHANGED <<subscriptions, issued, nextSeq, hist>>
    /\ UNCHANGED storeVars
    /\ UNCHANGED bridgeVars

\* mutant: the write is not guarded, its exception leaves notifyChange: the
\* binding stays and the subscriptions after the failing one are not reached
notifyChange_Unguarded(elementId, value, failing) ==
    LET matching == {s \in DOMAIN subscriptions : elementId \in subscriptions[s].monitoredItems}
        writers == {s \in matching : MapHas(sseConnections, s)}
        Before(s) == \A f \in failing : \E i, j \in 1..Len(SubOrder) :
                         SubOrder[i] = s /\ SubOrder[j] = f /\ i <= j
    IN /\ failing \subseteq writers
       /\ subscriptions' =
            [s \in DOMAIN subscriptions |->
                IF s \in matching /\ Before(s)
                THEN [subscriptions[s] EXCEPT !.pendingQueue =
                         Enqueue(@, value, subscriptions[s].queueHighWaterMark)]
                ELSE subscriptions[s]]
       /\ UNCHANGED sseConnections
       /\ conn' =
            [c \in ConnIds |->
                IF \E s \in writers \ failing : Before(s) /\ sseConnections[s] = c
                THEN [conn[c] EXCEPT !.frames = Append(@, Frame(value))]
                ELSE conn[c]]
       /\ hist' = [s \in DOMAIN hist |->
                     IF s \in matching /\ Before(s)
                     THEN Append(hist[s], value)
                     ELSE hist[s]]

\* mutant: the monitoredItems test is left out, every subscription is notified
notifyChange_Broadcast(elementId, value, failing) ==
    LET matching == DOMAIN subscriptions
        writers == {s \in matching : MapHas(sseConnections, s)}
    IN /\ failing \subseteq writers
       /\ subscriptions' =
            [s \in DOMAIN subscriptions |->
                [subscriptions[s] EXCEPT !.pendingQueue =
                    Enqueue(@, value, subscriptions[s].queueHighWaterMark)]]
       /\ sseConnections' = [s \in (DOMAIN sseConnections) \ failing |-> sseConnections[s]]
       /\ conn' =
            [c \in ConnIds |->
                IF \E s \in writers \ failing : sseConnections[s] = c
                THEN [conn[c] EXCEPT !.frames = Append(@, Frame(value))]
                ELSE IF \E s \in failing : sseConnections[s] = c
                     THEN [conn[c] EXCEPT !.st = "failed"]
                     ELSE conn[c]]
       /\ hist' = [s \in DOMAIN hist |-> Append(hist[s], value)]

\* notifyChange(): `failing` are the subscriptions whose sse.raw.write throws
notifyChange(elementId, value, failing) ==
    LET matching == {s \in DOMAIN subscriptions : elementId \in subscriptions[s].monitoredItems}
        writers == {s \in matching : MapHas(sseConnections, s)}
    IN /\ failing \subseteq writers
       /\ subscriptions' =
            [s \in DOMAIN subscriptions |->
                IF s \in matching
                THEN [subscriptions[s] EXCEPT !.pendingQueue =
                         Enqueue(@, value, subscriptions[s].queueHighWaterMark)]
                ELSE subscriptions[s]]
       /\ sseConnections' = [s \in (DOMAIN sseConnections) \ failing |-> sseConnections[s]]
       /\ conn' =
            [c \in ConnIds |->
                IF \E s \in writers \ failing : sseConnections[s] = c
                THEN [conn[c] EXCEPT !.frames = Append(@, Frame(value))]
                ELSE IF \E s \in failing : sseConnections[s] = c
                     THEN [conn[c] EXCEPT !.st = "failed"]
                     ELSE conn[c]]
       /\ hist' = [s \in DOMAIN hist |->
                     IF s \in matching
                     THEN Append(hist[s], value)
                     ELSE hist[s]]

\* one call listener(elementId, value, instance) as an observer function sees
\* it, and whether that function threw
Call(elementId, value, instance, threw) ==
    [elementId |-> elementId, value |-> value, instance |-> instance, threw |-> threw]

\* mutant: an exception of a listener leaves the loop, later entries are not called
invokeListeners_ThrowAborts(log, list, elementId, value, instance, throwing) ==
    LET stop == IF \E i \in 1..Len(list) : list[i] \in throwing
                THEN CHOOSE i \in 1..Len(list) :
                        /\ list[i] \in throwing
                        /\ \A j \in 1..(i - 1) : list[j] \notin throwing
                ELSE Len(list)
    IN [l \in DOMAIN log |->
           LET Is(x) == x = l
           IN log[l] \o [i \in 1..Len(SelectSeq(SubSeq(list, 1, stop), Is)) |->
                            Call(elementId, value, instance, l \in throwing)]]

\* mutant: a call is put in front of the calls seen before
invokeListeners_NewestFirst(log, list, elementId, value, instance, throwing) ==
    [l \in DOMAIN log |->
        LET Is(x) == x = l
        IN [i \in 1..Len(SelectSeq(list, Is)) |->
               Call(elementId, value, instance, l \in throwing)] \o log[l]]

\* the listener loop of upsert (lines 49-56) as the observer functions see it:
\* every entry of the listeners array is called once, in array order, and an
\* exception is caught; `log` gains the calls each function received
invokeListeners(log, list, elementId, value, instance, throwing) ==
    [l \in DOMAIN log |->
        LET Is(x) == x = l
        IN log[l] \o [i \in 1..Len(SelectSeq(list, Is)) |->
                         Call(elementId, value, instance, l \in throwing)]]

\* upsert(): store update, then every change listener; the listener wired by
\* the server calls subscriptionManager.notifyChange(elementId, value);
\* `throwing` are the observer functions that throw when called
upsert(elementId, instance, failing, throwing) ==
    LET value == [elementId |-> elementId, value |-> nextSeq, quality |-> Undefined]
    IN /\ nextSeq <= MaxSeq
       /\ nextSeq' = nextSeq + 1
       /\ SetStore(upsertStore(Store, elementId, value, instance))
       /\ lastUpserted' = MapSet(lastUpserted, elementId, value)
       /\ throwing \subseteq (ToSet(listeners) \cap ListenerIds)
       /\ heard' = invokeListeners(heard, listeners, elementId, value, instance, throwing)
       /\ IF SeqHas(listeners, WiredListener)
          THEN notifyChange(elementId, value, failing)
          ELSE /\ failing = {}
               /\ UNCHANGED <<subscriptions, sseConnections, conn, hist>>
       /\ ret' = NoRet
       /\ UNCHANGED <<issued, instanceDeleted, listeners>>

\* upsert() called on the store directly
Upsert(elementId, instance, failing, throwing) ==
    /\ upsert(elementId, instance, failing, throwing)
    /\ UNCHANGED bridgeVars

\* addChangeListener(): push, the same function may be registered again (the
\* array is followed up to one entry per observer function beside the wired one)
AddChangeListener(listener) ==
    /\ Len(listeners) <= Cardinality(ListenerIds)
    /\ listeners' = Append(listeners, listener)
    /\ ret' = NoRet
    /\ UNCHANGED <<values, instances, byNamespace, byType, relationships, targetIndex,
                   instanceDeleted, heard, lastUpserted, nextSeq>>
    /\ UNCHANGED subVars
    /\ UNCHANGED bridgeVars

\* removeChangeListener(): indexOf, then splice of that one entry
RemoveChangeListener(listener) ==
    /\ listeners' = IF SeqHas(listeners, listener)
                    THEN LET index == CHOOSE i \in 1..Len(listeners) :
                                         /\ listeners[i] = listener
                                         /\ \A j \in 1..(i - 1) : listeners[j] # listener
                         IN SubSeq(listeners, 1, index - 1)
                              \o SubSeq(listeners, index + 1, Len(listeners))
                    ELSE listeners
    /\ ret' = NoRet
    /\ UNCHANGED <<values, instances, byNamespace, byType, relationships, targetIndex,
                   instanceDeleted, heard, lastUpserted, nextSeq>>
    /\ UNCHANGED subVars
    /\ UNCHANGED bridgeVars

\* the counters of a new MessageHandler
NoStats == [received |-> 0, matched |-> 0, processed |-> 0, decomposed |-> 0, errors |-> 0]

\* the answer of a request: the operation, the HTTP status (0: the call sends
\* none) and the element or rule ids it returns
Answer(op, status, ids) == [op |-> op, status |-> status, ids |-> ids]
NoAnswer == Answer("none", 0, <<>>)

\* ========================================================== MappingEngine
\* A topic or a topic pattern is modelled as the tuple of its characters.
\* index of the first '}' after position i, 0 when there is none
NextClose(pattern, i) ==
    IF \E j \in (i + 1)..Len(pattern) : pattern[j] = "}"
    THEN CHOOSE j \in (i + 1)..Len(pattern) :
            /\ pattern[j] = "}"
            /\ \A k \in (i + 1)..(j - 1) : pattern[k] # "}"
    ELSE 0

\* /\{([^}]+)\}/ matches at position i: '{', one or more characters, '}'
ParamAt(pattern, i) == pattern[i] = "{" /\ NextClose(pattern, i) > i + 1

\* the parts of the compiled regex: an escaped literal character, or ([^/]+)
Literal(c) == [group |-> FALSE, char |-> c]
Group == [group |-> TRUE, char |-> ""]

RECURSIVE compileFrom(_, _)
\* the while loop of compileTopicPattern from position i on
compileFrom(pattern, i) ==
    IF i > Len(pattern) THEN [parts |-> <<>>, paramNames |-> <<>>]
    ELSE IF ParamAt(pattern, i)
    THEN LET close == NextClose(pattern, i)
             rest == compileFrom(pattern, close + 1)
         IN [parts |-> <<Group>> \o rest.parts,
             paramNames |-> <<SubSeq(pattern, i + 1, close - 1)>> \o rest.paramNames]
    ELSE LET rest == compileFrom(pattern, i + 1)
         IN [parts |-> <<Literal(pattern[i])>> \o rest.parts,
             paramNames |-> rest.paramNames]

\* mutant: every '{' opens a placeholder, also '{}' and an unclosed '{'
compileTopicPattern_AnyBrace(pattern) ==
    LET Open(i) == pattern[i] = "{"
        RECURSIVE from(_)
        from(i) ==
            IF i > Len(pattern) THEN [parts |-> <<>>, paramNames |-> <<>>]
            ELSE IF Open(i)
            THEN LET close == IF NextClose(pattern, i) = 0 THEN Len(pattern)
                              ELSE NextClose(pattern, i)
                     rest == from(close + 1)
                 IN [parts |-> <<Group>> \o rest.parts,
                     paramNames |-> <<SubSeq(pattern, i + 1, close - 1)>> \o rest.paramNames]
            ELSE LET rest == from(i + 1)
                 IN [parts |-> <<Literal(pattern[i])>> \o rest.parts,
                     paramNames |-> rest.paramNames]
    IN [pattern |-> from(1).parts, paramNames |-> from(1).paramNames, original |-> pattern]

compileTopicPattern(pattern) ==
    [pattern |-> compileFrom(pattern, 1).parts,
     paramNames |-> compileFrom(pattern, 1).paramNames,
     original |-> pattern]

RECURSIVE execFrom(_, _, _, _)
\* RegExp.exec of the anchored pattern: parts k.. against topic from position i;
\* a group is greedy, it takes the longest run without '/' that lets the rest match
execFrom(parts, k, topic, i) ==
    IF k > Len(parts) THEN [ok |-> i = Len(topic) + 1, groups |-> <<>>]
    ELSE IF ~parts[k].group
    THEN IF i <= Len(topic) /\ topic[i] = parts[k].char
         THEN execFrom(parts, k + 1, topic, i + 1)
         ELSE [ok |-> FALSE, groups |-> <<>>]
    ELSE LET ends == {e \in i..Len(topic) :
                         /\ \A j \in i..e : topic[j] # "/"
                         /\ execFrom(parts, k + 1, topic, e + 1).ok}
         IN IF ends = {} THEN [ok |-> FALSE, groups |-> <<>>]
            ELSE LET e == CHOOSE x \in ends : \A y \in ends : y <= x
                 IN [ok |-> TRUE,
                     groups |-> <<SubSeq(topic, i, e)>>
                                  \o execFrom(parts, k + 1, topic, e + 1).groups]

RECURSIVE captureFrom(_, _, _)
\* capture[paramNames[i]] = match[i + 1] for i = n..: a repeated name keeps the last group
captureFrom(paramNames, groups, n) ==
    IF n = 0 THEN EmptyMap
    ELSE MapSet(captureFrom(paramNames, groups, n - 1), paramNames[n], groups[n])

\* matchTopic: null (matched = FALSE) or the capture object
matchTopic(topic, compiled) ==
    LET found == execFrom(compiled.pattern, 1, topic, 1)
    IN IF ~found.ok THEN [matched |-> FALSE, captures |-> EmptyMap]
       ELSE [matched |-> TRUE,
             captures |-> captureFrom(compiled.paramNames, found.groups,
                                      Len(compiled.paramNames))]

\* a MappingRule, and the absent rule of a null result
Rule(id, topicPattern, codec) == [id |-> id, topicPattern |-> topicPattern, codec |-> codec]
NoRule == Rule("null", <<>>, Undefined)
\* a MatchResult; found is false for null
MatchResult(found, rule, captures) == [found |-> found, rule |-> rule, captures |-> captures]
NoMatchResult == MatchResult(FALSE, NoRule, EmptyMap)

\* mutant: the loop keeps the last matching rule
match_LastWins(list, topic) ==
    LET hits == {i \in 1..Len(list) : matchTopic(topic, list[i].compiled).matched}
    IN IF hits = {} THEN NoMatchResult
       ELSE LET i == CHOOSE x \in hits : \A y \in hits : y <= x
            IN MatchResult(TRUE, list[i].rule, matchTopic(topic, list[i].compiled).captures)

\* match(): the for loop returns at the first rule whose matchTopic is not null
match(list, topic) ==
    LET hits == {i \in 1..Len(list) : matchTopic(topic, list[i].compiled).matched}
    IN IF hits = {} THEN NoMatchResult
       ELSE LET i == CHOOSE x \in hits : \A y \in hits : x <= y
            IN MatchResult(TRUE, list[i].rule, matchTopic(topic, list[i].compiled).captures)

\* getRule(): the first rule with that id, or undefined (NoRule)
getRule(list, id) ==
    IF \E i \in 1..Len(list) : list[i].rule.id = id
    THEN list[CHOOSE i \in 1..Len(list) :
                 /\ list[i].rule.id = id
                 /\ \A j \in 1..(i - 1) : list[j].rule.id # id].rule
    ELSE NoRule

\* addRule(): push of the rule with its compiled pattern (`at` observes the
\* number of the addRule call that inserted it)
addRule(list, rule, at) ==
    Append(list, [rule |-> rule, compiled |-> compileTopicPattern(rule.topicPattern), at |-> at])

RECURSIVE addRules(_, _, _)
\* addRules(): addRule for each rule of the array
addRules(list, newRules, at) ==
    IF newRules = <<>> THEN list
    ELSE addRules(addRule(list, Head(newRules), at), Tail(newRules), at + 1)

\* removeRule(): findIndex by id, then splice of that entry
removeRule(list, id) ==
    IF \E i \in 1..Len(list) : list[i].rule.id = id
    THEN LET index == CHOOSE i \in 1..Len(list) :
                         /\ list[i].rule.id = id
                         /\ \A j \in 1..(i - 1) : list[j].rule.id # id
         IN SubSeq(list, 1, index - 1) \o SubSeq(list, index + 1, Len(list))
    ELSE list

\* ====================================================== MqttClientWrapper
\* `client` is true while this.client holds an mqtt.js client; `broker` is the
\* broker's side of the session: the topics it delivers to this client, and
\* the topics of the last subscribe packet it received. The session is clean
\* (the default of buildOptions): the broker forgets it when the connection ends.
Broker(session, received) == [session |-> session, received |-> received]

\* client.subscribe(topics) on the connected client
brokerSubscribe(b, topics) == Broker(b.session \cup topics, topics)
\* client.unsubscribe(topic)
brokerUnsubscribe(b, topic) == Broker(b.session \ {topic}, b.received)

\* mutant: nothing is sent to the broker when the connection comes up
resubscribe_Nothing(b) == b

\* resubscribe(): one subscribe with every topic of the set, unless it is empty
resubscribe(b) ==
    IF client /\ mqttSubscriptions # {}
    THEN brokerSubscribe(b, mqttSubscriptions)
    ELSE b

\* connect(): returns at once when a client exists, else creates the client
Connect ==
    /\ IF client
       THEN UNCHANGED <<client, state>>
       ELSE client' = TRUE /\ state' = "connecting"
    /\ ret' = NoRet
    /\ UNCHANGED <<mqttSubscriptions, broker>>
    /\ UNCHANGED <<rules, added, lastMatch, stats, types, answer>>
    /\ UNCHANGED coreVars

\* the client's 'connect' event, after a first connect and after every reconnect
OnConnect ==
    /\ client
    /\ state \in {"connecting", "reconnecting"}
    /\ state' = "connected"
    /\ broker' = resubscribe(broker)
    /\ ret' = NoRet
    /\ UNCHANGED <<client, mqttSubscriptions>>
    /\ UNCHANGED <<rules, added, lastMatch, stats, types, answer>>
    /\ UNCHANGED coreVars

\* the client's 'reconnect' event: a reconnect attempt starts after a close
OnReconnect ==
    /\ client
    /\ state = "disconnected"
    /\ state' = "reconnecting"
    /\ ret' = NoRet
    /\ UNCHANGED <<client, mqttSubscriptions, broker>>
    /\ UNCHANGED <<rules, added, lastMatch, stats, types, answer>>
    /\ UNCHANGED coreVars

\* the client's 'close' event: the connection, or an attempt to connect, ended
OnClose ==
    /\ client
    /\ state # "disconnected"
    /\ state' = "disconnected"
    /\ broker' = Broker({}, broker.received)
    /\ ret' = NoRet
    /\ UNCHANGED <<client, mqttSubscriptions>>
    /\ UNCHANGED <<rules, added, lastMatch, stats, types, answer>>
    /\ UNCHANGED coreVars

\* disconnect(): client.end, then the client is dropped
Disconnect ==
    /\ IF client
       THEN /\ client' = FALSE
            /\ state' = "disconnected"
            /\ broker' = Broker({}, broker.received)
       ELSE UNCHANGED <<client, state, broker>>
    /\ ret' = NoRet
    /\ UNCHANGED <<mqttSubscriptions>>
    /\ UNCHANGED <<rules, added, lastMatch, stats, types, answer>>
    /\ UNCHANGED coreVars

\* subscribe(topic) of the wrapper: the topic joins the set, the broker is told
\* only while connected
subscribe(topic) ==
    /\ mqttSubscriptions' = mqttSubscriptions \cup {topic}
    /\ broker' = IF client /\ state = "connected"
                 THEN brokerSubscribe(broker, {topic})
                 ELSE broker

Subscribe(topic) ==
    /\ subscribe(topic)
    /\ ret' = NoRet
    /\ UNCHANGED <<client, state>>
    /\ UNCHANGED <<rules, added, lastMatch, stats, types, answer>>
    /\ UNCHANGED coreVars

Unsubscribe(topic) ==
    /\ mqttSubscriptions' = mqttSubscriptions \ {topic}
    /\ broker' = IF client /\ state = "connected"
                 THEN brokerUnsubscribe(broker, topic)
                 ELSE broker
    /\ ret' = NoRet
    /\ UNCHANGED <<client, state>>
    /\ UNCHANGED <<rules, added, lastMatch, stats, types, answer>>
    /\ UNCHANGED coreVars

\* ========================================================= admin mappings
RECURSIVE mqttTopicFrom(_, _)
\* rule.topicPattern.replace(/\{[^}]+\}/g, '+') from position i on
mqttTopicFrom(pattern, i) ==
    IF i > Len(pattern) THEN <<>>
    ELSE IF ParamAt(pattern, i)
    THEN <<"+">> \o mqttTopicFrom(pattern, NextClose(pattern, i) + 1)
    ELSE <<pattern[i]>> \o mqttTopicFrom(pattern, i + 1)

mqttTopic(pattern) == mqttTopicFrom(pattern, 1)

\* POST /admin/mappings; the server passes its MQTT client wrapper to the routes
PostMapping(id, topicPattern, codec) ==
    IF id = Undefined \/ topicPattern = <<>> \/ codec = Undefined
    THEN /\ answer' = Answer("POST /admin/mappings", 400, <<>>)
         /\ ret' = NoRet
         /\ UNCHANGED <<rules, added, lastMatch, stats, types>>
         /\ UNCHANGED mqttVars
         /\ UNCHANGED coreVars
    ELSE IF getRule(rules, id) # NoRule
    THEN /\ answer' = Answer("POST /admin/mappings", 409, <<>>)
         /\ ret' = NoRet
         /\ UNCHANGED <<rules, added, lastMatch, stats, types>>
         /\ UNCHANGED mqttVars
         /\ UNCHANGED coreVars
    ELSE /\ added < MaxRules
         /\ added' = added + 1
         /\ rules' = addRule(rules, Rule(id, topicPattern, codec), added + 1)
         /\ IF state = "connected"
            THEN subscribe(mqttTopic(topicPattern))
            ELSE UNCHANGED <<mqttSubscriptions, broker>>
         /\ answer' = Answer("POST /admin/mappings", 201, <<>>)
         /\ ret' = NoRet
         /\ UNCHANGED <<client, state>>
         /\ UNCHANGED <<lastMatch, stats, types>>
         /\ UNCHANGED coreVars

\* PUT /admin/mappings/:id with a body that carries topicPattern (<<>>: the
\* body leaves it out): the rule is removed and added again
PutMapping(id, topicPattern) ==
    IF getRule(rules, id) = NoRule
    THEN /\ answer' = Answer("PUT /admin/mappings/:id", 404, <<>>)
         /\ ret' = NoRet
         /\ UNCHANGED <<rules, added, lastMatch, stats, types>>
         /\ UNCHANGED mqttVars
         /\ UNCHANGED coreVars
    ELSE LET existing == getRule(rules, id)
             updated == Rule(id,
                             IF topicPattern # <<>> THEN topicPattern ELSE existing.topicPattern,
                             existing.codec)
         IN /\ added < MaxRules
            /\ added' = added + 1
            /\ rules' = addRule(removeRule(rules, id), updated, added + 1)
            /\ answer' = Answer("PUT /admin/mappings/:id", 200, <<>>)
            /\ ret' = NoRet
            /\ UNCHANGED <<lastMatch, stats, types>>
            /\ UNCHANGED mqttVars
            /\ UNCHANGED coreVars

\* DELETE /admin/mappings/:id
DeleteMapping(id) ==
    /\ IF getRule(rules, id) = NoRule
       THEN /\ answer' = Answer("DELETE /admin/mappings/:id", 404, <<>>)
            /\ UNCHANGED rules
       ELSE /\ answer' = Answer("DELETE /admin/mappings/:id", 204, <<>>)
            /\ rules' = removeRule(rules, id)
    /\ ret' = NoRet
    /\ UNCHANGED <<added, lastMatch, stats, types>>
    /\ UNCHANGED mqttVars
    /\ UNCHANGED coreVars

\* ========================================================= MessageHandler
\* the JavaScript string spelled by a tuple of characters, for the strings that
\* reach the store (TLA+ strings are atomic)
Spell ==
    (<<>> :> "") @@ (<<"a">> :> "a") @@ (<<"b">> :> "b") @@ (<<"a", "b">> :> "ab")
    @@ (<<"a", ".", "a">> :> "a.a") @@ (<<"a", ".", "b">> :> "a.b")

\* String.replace(/\//g, '.')
replaceSlashes(topic) == [i \in 1..Len(topic) |-> IF topic[i] = "/" THEN "." ELSE topic[i]]

RECURSIVE splitDots(_)
\* String.split('.'): the tuple of the segments, each spelled as a string
splitDots(chars) ==
    IF \E i \in 1..Len(chars) : chars[i] = "."
    THEN LET dot == CHOOSE i \in 1..Len(chars) :
                       chars[i] = "." /\ \A j \in 1..(i - 1) : chars[j] # "."
         IN <<Spell[SubSeq(chars, 1, dot - 1)]>> \o splitDots(SubSeq(chars, dot + 1, Len(chars)))
    ELSE <<Spell[chars]>>

\* a payload: its length in bytes and whether JSON.parse accepts its text
Payload(length, parses) == [length |-> length, parses |-> parses]
Payloads == {Payload(0, FALSE), Payload(1, FALSE), Payload(1, TRUE)}

\* codecs in the registry: three built-in ones ('protobuf' is a stub) and a
\* registered codec whose decode throws
Codecs == {"json", "uint8", "protobuf", "boom"}
Decoded == "decoded"

\* CodecRegistry.decode: undefined for an unknown name, for a codec that
\* returns undefined and for a codec that throws
decode(name, input) ==
    IF name \notin Codecs THEN Undefined
    ELSE CASE name = "json" -> IF input.parses THEN Decoded ELSE Undefined
           [] name = "uint8" -> IF input.length >= 1 THEN Decoded ELSE Undefined
           [] name = "protobuf" -> Undefined
           [] name = "boom" -> Undefined

\* the capture key 'namespace'
NamespaceKey == <<"n", "a", "m", "e", "s", "p", "a", "c", "e">>

\* SchemaMapper.map for a rule without templates: the elementId is the topic
\* with '/' replaced by '.', typeId 'GenericTag', namespace from the capture
\* 'namespace' or 'urn:default'
map(rule, topic, captures) ==
    LET dotted == replaceSlashes(topic)
    IN [elementId |-> splitDots(dotted),
        instance |-> [elementId |-> splitDots(dotted),
                      displayName |-> Spell[dotted],
                      typeId |-> "GenericTag",
                      namespaceUri |-> IF MapHas(captures, NamespaceKey)
                                       THEN Spell[captures[NamespaceKey]]
                                       ELSE "urn:default",
                      isComposition |-> FALSE]]

\* --- PayloadDecomposer
\* a decoded JSON object: its entries in key order, the string under _model
\* (Undefined if none) and the characters of the string under _path (<<>> if
\* none); an entry holds a scalar or a nested object
Object(entries, model, path) == [entries |-> entries, model |-> model, path |-> path]
NoObject == Object(<<>>, Undefined, <<>>)
Scalar(key) == [key |-> key, isObj |-> FALSE, obj |-> NoObject]
Nested(key, obj) == [key |-> key, isObj |-> TRUE, obj |-> obj]

\* a payload whose text is the JSON of an object
ObjectPayload(obj) == [length |-> 1, parses |-> TRUE, object |-> obj]

\* decompose options of a rule; maxDepth 10 when left out
DefaultDecomposeDepth == 10
DecomposeConfig(enabled, strategy, childIdStrategy, maxDepth) ==
    [enabled |-> enabled, strategy |-> strategy, childIdStrategy |-> childIdStrategy,
     maxDepth |-> maxDepth]
DecomposingRule(id, topicPattern, codec, decompose) ==
    [id |-> id, topicPattern |-> topicPattern, codec |-> codec, decompose |-> decompose]

\* key.replace(/[./]/g, '_') on the keys of the payloads
sanitize == ("b" :> "b") @@ ("c" :> "c") @@ ("b.c" :> "b_c") @@ ("b/c" :> "b_c")

\* Object.keys(obj).length: _model and _path are keys too
keyCount(obj) ==
    Len(obj.entries) + (IF obj.model # Undefined THEN 1 ELSE 0)
                     + (IF obj.path # <<>> THEN 1 ELSE 0)

isChild(obj, strategy) ==
    IF strategy = "abelara" THEN obj.model # Undefined
    ELSE IF strategy = "flat" THEN keyCount(obj) > 0
    ELSE obj.model # Undefined \/ keyCount(obj) > 0

childIdOf(parentId, key, obj, strategy) ==
    IF strategy = "path" /\ obj.path # <<>>
    THEN splitDots(replaceSlashes(obj.path))
    ELSE Append(parentId, sanitize[key])

\* the last segment of _model for the strategies that read it
typeIdOf(obj, strategy) ==
    IF strategy \in {"abelara", "auto"} /\ obj.model # Undefined
    THEN obj.model ELSE "DecomposedComponent"

DecomposedEntry(elementId, displayName, type, ns, parentComponentId) ==
    [elementId |-> elementId,
     instance |-> [elementId |-> elementId, displayName |-> displayName, typeId |-> type,
                   namespaceUri |-> ns, isComposition |-> FALSE],
     parentComponentId |-> parentComponentId]

RECURSIVE walk(_, _, _, _, _, _, _)
\* walk from the i-th entry of obj on: the entries pushed to out, a nested
\* component before its own children
walk(obj, i, parentId, ns, config, depth, maxDepth) ==
    IF (maxDepth # 0 /\ depth >= maxDepth) \/ i > Len(obj.entries) THEN <<>>
    ELSE LET entry == obj.entries[i]
             rest == walk(obj, i + 1, parentId, ns, config, depth, maxDepth)
         IN IF entry.isObj /\ isChild(entry.obj, config.strategy)
            THEN LET id == childIdOf(parentId, entry.key, entry.obj, config.childIdStrategy)
                 IN <<DecomposedEntry(id, entry.key, typeIdOf(entry.obj, config.strategy),
                                      ns, parentId)>>
                    \o walk(entry.obj, 1, id, ns, config, depth + 1, maxDepth)
                    \o rest
            ELSE <<DecomposedEntry(Append(parentId, sanitize[entry.key]), entry.key,
                                   "ScalarProperty", ns, parentId)>>
                 \o rest

\* decompose: nothing for a disabled config and for a payload that did not
\* decode to an object (rules here have no root option)
decompose(codec, payload, primary, config) ==
    IF ~config.enabled THEN <<>>
    ELSE IF ~(codec = "json" /\ "object" \in DOMAIN payload) THEN <<>>
    ELSE walk(payload.object, 1, primary.elementId, primary.instance.namespaceUri,
              config, 0, config.maxDepth)

\* --- MessageHandler with decomposition
\* the store, its listeners' logs and the subscription manager as one value,
\* for the handler's upserts that follow one another within one message
World ==
    [store |-> Store, lastUpserted |-> lastUpserted, heard |-> heard,
     subscriptions |-> subscriptions, sseConnections |-> sseConnections,
     conn |-> conn, hist |-> hist]

\* notifyChange(elementId, value) on such a value, `failing` as in notifyChange
notified(W, elementId, value, failing) ==
    LET matching == {s \in DOMAIN W.subscriptions :
                        elementId \in W.subscriptions[s].monitoredItems}
        writers == {s \in matching : MapHas(W.sseConnections, s)}
        fails == failing \cap writers
    IN [W EXCEPT
          !.subscriptions =
              [s \in DOMAIN W.subscriptions |->
                  IF s \in matching
                  THEN [W.subscriptions[s] EXCEPT !.pendingQueue =
                           Enqueue(@, value, W.subscriptions[s].queueHighWaterMark)]
                  ELSE W.subscriptions[s]],
          !.sseConnections = [s \in (DOMAIN W.sseConnections) \ fails |-> W.sseConnections[s]],
          !.conn =
              [c \in ConnIds |->
                  IF \E s \in writers \ fails : W.sseConnections[s] = c
                  THEN [W.conn[c] EXCEPT !.frames = Append(@, Frame(value))]
                  ELSE IF \E s \in fails : W.sseConnections[s] = c
                       THEN [W.conn[c] EXCEPT !.st = "failed"]
                       ELSE W.conn[c]],
          !.hist = [s \in DOMAIN W.hist |->
                       IF s \in matching THEN Append(W.hist[s], value) ELSE W.hist[s]]]

\* objectStore.upsert(elementId, value, instance) on such a value
upserted(W, elementId, value, instance, failing) ==
    LET W1 == [W EXCEPT !.store = upsertStore(W.store, elementId, value, instance),
                        !.lastUpserted = MapSet(W.lastUpserted, elementId, value),
                        !.heard = invokeListeners(W.heard, listeners, elementId, value,
                                                  instance, {})]
    IN IF SeqHas(listeners, WiredListener)
       THEN notified(W1, elementId, value, failing)
       ELSE W1

linkComponent_OneWay(S, parentComponentId, child) ==
    addRelationship(S, parentComponentId, child, "HasComponent")

\* the two addRelationship calls for one child
linkComponent(S, parentComponentId, child) ==
    addRelationship(addRelationship(S, parentComponentId, child, "HasComponent"),
                    child, parentComponentId, "ComponentOf")

RECURSIVE storeChildren(_, _, _, _)
\* the loop over the decomposed entries from the i-th on
storeChildren(W, children, i, seq) ==
    IF i > Len(children) THEN W
    ELSE LET child == children[i]
             value == [elementId |-> child.elementId, value |-> seq, quality |-> Undefined]
             W1 == upserted(W, child.elementId, value, child.instance, {})
         IN storeChildren([W1 EXCEPT !.store = linkComponent(W1.store, child.parentComponentId,
                                                            child.elementId)],
                          children, i + 1, seq)

SetWorld(W) ==
    /\ SetStore(W.store)
    /\ lastUpserted' = W.lastUpserted
    /\ heard' = W.heard
    /\ subscriptions' = W.subscriptions
    /\ sseConnections' = W.sseConnections
    /\ conn' = W.conn
    /\ hist' = W.hist

\* mutant: a decoded value of undefined is mapped and stored like any other
handle_StoresUndefined(topic, payload, failing) ==
    LET matchResult == match(rules, topic)
        mapped == map(matchResult.rule, topic, matchResult.captures)
    IN /\ stats.received < MaxMessages
       /\ IF ~matchResult.found
          THEN /\ stats' = [stats EXCEPT !.received = @ + 1]
               /\ ret' = NoRet
               /\ UNCHANGED coreVars
          ELSE /\ upsert(mapped.elementId, mapped.instance, failing, {})
               /\ stats' = [stats EXCEPT !.received = @ + 1, !.matched = @ + 1,
                                         !.processed = @ + 1]
       /\ UNCHANGED <<rules, added, lastMatch, types, answer>>
       /\ UNCHANGED mqttVars

\* mutant: processed is counted before the payload is decoded, and errors is
\* counted too when decoding fails
handle_CountsBeforeDecode(topic, payload, failing) ==
    LET matchResult == match(rules, topic)
        rule == matchResult.rule
        decoded == decode(rule.codec, payload)
        mapped == map(rule, topic, matchResult.captures)
    IN /\ stats.received < MaxMessages
       /\ IF ~matchResult.found
          THEN /\ stats' = [stats EXCEPT !.received = @ + 1]
               /\ ret' = NoRet
               /\ UNCHANGED coreVars
          ELSE IF decoded = Undefined
          THEN /\ stats' = [stats EXCEPT !.received = @ + 1, !.matched = @ + 1,
                                         !.processed = @ + 1, !.errors = @ + 1]
               /\ ret' = NoRet
               /\ UNCHANGED coreVars
          ELSE /\ upsert(mapped.elementId, mapped.instance, failing, {})
               /\ stats' = [stats EXCEPT !.received = @ + 1, !.matched = @ + 1,
                                         !.processed = @ + 1]
       /\ UNCHANGED <<rules, added, lastMatch, types, answer>>
       /\ UNCHANGED mqttVars

\* handle(topic, payload) for rules without extraction options: extract
\* returns the payload itself; the values stored for one message carry the
\* same number
handle(topic, payload, failing) ==
    LET matchResult == match(rules, topic)
        rule == matchResult.rule
        extracted == payload
        decoded == decode(rule.codec, extracted)
        mapped == map(rule, topic, matchResult.captures)
        decomposes == "decompose" \in DOMAIN rule /\ rule.decompose.enabled
        children == IF decomposes
                    THEN decompose(rule.codec, extracted, mapped, rule.decompose)
                    ELSE <<>>
        value == [elementId |-> mapped.elementId, value |-> nextSeq, quality |-> Undefined]
    IN /\ stats.received < MaxMessages
       /\ IF ~matchResult.found
          THEN /\ stats' = [stats EXCEPT !.received = @ + 1]
               /\ ret' = NoRet
               /\ UNCHANGED coreVars
          ELSE IF decoded = Undefined
          THEN /\ stats' = [stats EXCEPT !.received = @ + 1, !.matched = @ + 1,
                                         !.errors = @ + 1]
               /\ ret' = NoRet
               /\ UNCHANGED coreVars
          ELSE IF ~decomposes
          THEN /\ upsert(mapped.elementId, mapped.instance, failing, {})
               /\ stats' = [stats EXCEPT !.received = @ + 1, !.matched = @ + 1,
                                         !.processed = @ + 1]
          ELSE /\ nextSeq <= MaxSeq
               /\ nextSeq' = nextSeq + 1
               /\ failing \subseteq
                     {s \in DOMAIN sseConnections :
                         /\ SeqHas(listeners, WiredListener)
                         /\ MapHas(subscriptions, s)
                         /\ mapped.elementId \in subscriptions[s].monitoredItems}
               /\ SetWorld(storeChildren(upserted(World, mapped.elementId, value,
                                                  mapped.instance, failing),
                                         children, 1, nextSeq))
               /\ ret' = NoRet
               /\ UNCHANGED <<issued, instanceDeleted, listeners>>
               /\ stats' = [stats EXCEPT !.received = @ + 1, !.matched = @ + 1,
                                         !.processed = @ + 1,
                                         !.decomposed = @ + Len(children)]
       /\ UNCHANGED <<rules, added, lastMatch, types, answer>>
       /\ UNCHANGED mqttVars

\* the 'message' event of the client
Handle(topic, payload, failing) == handle(topic, payload, failing)

Init ==
    /\ values = EmptyMap
    /\ instances = EmptyMap
    /\ byNamespace = EmptyMap
    /\ byType = EmptyMap
    /\ relationships = EmptyMap
    /\ targetIndex = EmptyMap
    /\ subscriptions = EmptyMap
    /\ sseConnections = EmptyMap
    /\ conn = [c \in ConnIds |-> [sub |-> NoSub, st |-> "fresh", frames |-> <<>>]]
    /\ issued = {}
    /\ nextSeq = 1
    /\ hist = EmptyMap
    /\ ret = NoRet
    /\ instanceDeleted = FALSE
    /\ listeners = <<WiredListener>>
    /\ heard = [l \in ListenerIds |-> <<>>]
    /\ lastUpserted = EmptyMap
    /\ rules = <<>>
    /\ added = 0
    /\ lastMatch = [topic |-> <<>>, result |-> NoMatchResult]
    /\ stats = NoStats
    /\ client = FALSE
    /\ state = "disconnected"
    /\ mqttSubscriptions = {}
    /\ broker = Broker({}, {})
    /\ types = EmptyMap
    /\ answer = NoAnswer

\* --- the subscription side: API calls, SSE requests and value updates.
\* This specification follows one subscription from create to delete (ids never
\* issued stand for absent subscriptions); the listener passes only elementId
\* and value to notifyChange, so upsert is called here without an instance.
DoCreate == \E options \in CreateOptions : Create(options, 1)
DoDelete == \E s \in SubIds : Delete(s)
DoRegister == \E s \in SubIds, e \in MonitoredIds : Register(s, <<e>>)
DoUnregister == \E s \in SubIds, e \in MonitoredIds : Unregister(s, <<e>>)
DoSync == \E s \in SubIds : Sync(s)
DoStream == \E s \in SubIds : Stream(s)
DoClose == \E c \in ConnIds : CloseEvent(c)
DoUpsertValue ==
    \E e \in MonitoredIds, failing \in SUBSET SubIds : Upsert(e, NoInstance, failing, {})

Next ==
    \/ DoCreate
    \/ DoDelete
    \/ DoRegister
    \/ DoUnregister
    \/ DoSync
    \/ DoStream
    \/ DoClose
    \/ DoUpsertValue

Spec == Init /\ [][Next]_vars

\* --- the store side: the ObjectStore API
Instance(elementId, typeId, namespaceUri) ==
    [elementId |-> elementId, displayName |-> elementId[Len(elementId)],
     typeId |-> typeId, namespaceUri |-> namespaceUri, isComposition |-> FALSE]

InstanceInputs(elementId) ==
    {NoInstance, Instance(elementId, "T1", "ns1"), Instance(elementId, "T2", "ns2")}

\* ids the relationship API is called with: sources, and targets of added edges
RelIds == {IdA, IdAB}
RelTargets == {IdA}

\* delete(); instanceDeleted observes that a delete() has removed an instance
\* since construction or the last clear()
DeleteElement(elementId) ==
    /\ SetStore(deleteStore(Store, elementId))
    /\ instanceDeleted' = (instanceDeleted \/ MapHas(instances, elementId))
    /\ lastUpserted' = MapDelete(lastUpserted, elementId)
    /\ UNCHANGED listenerVars
    /\ ret' = NoRet
    /\ UNCHANGED <<nextSeq>>
    /\ UNCHANGED subVars
    /\ UNCHANGED bridgeVars

Clear ==
    /\ SetStore(clearStore(Store))
    /\ instanceDeleted' = FALSE
    /\ lastUpserted' = EmptyMap
    /\ UNCHANGED listenerVars
    /\ ret' = NoRet
    /\ UNCHANGED <<nextSeq>>
    /\ UNCHANGED subVars
    /\ UNCHANGED bridgeVars

AddRelationship(sourceId, targetId, typeId) ==
    /\ IF MapHas(relationships, sourceId)
       THEN Len(relationships[sourceId]) < MaxEdges ELSE TRUE
    /\ SetStore(addRelationship(Store, sourceId, targetId, typeId))
    /\ UNCHANGED <<instanceDeleted, listeners, heard, lastUpserted>>
    /\ ret' = NoRet
    /\ UNCHANGED <<nextSeq>>
    /\ UNCHANGED subVars
    /\ UNCHANGED bridgeVars

RemoveRelationship(sourceId, targetId, typeId) ==
    /\ SetStore(removeRelationship(Store, sourceId, targetId, typeId))
    /\ UNCHANGED <<instanceDeleted, listeners, heard, lastUpserted>>
    /\ ret' = NoRet
    /\ UNCHANGED <<nextSeq>>
    /\ UNCHANGED subVars
    /\ UNCHANGED bridgeVars

RemoveRelationshipsByType(elementId, typeId) ==
    /\ SetStore(removeRelationshipsByType(Store, elementId, typeId))
    /\ UNCHANGED <<instanceDeleted, listeners, heard, lastUpserted>>
    /\ ret' = NoRet
    /\ UNCHANGED <<nextSeq>>
    /\ UNCHANGED subVars
    /\ UNCHANGED bridgeVars

ClearRelationships(elementId) ==
    /\ SetStore(clearRelationships(Store, elementId))
    /\ UNCHANGED <<instanceDeleted, listeners, heard, lastUpserted>>
    /\ ret' = NoRet
    /\ UNCHANGED <<nextSeq>>
    /\ UNCHANGED subVars
    /\ UNCHANGED bridgeVars

DoUpsert == \E e \in ElementIds : \E instance \in InstanceInputs(e) : Upsert(e, instance, {}, {})
DoDeleteElement == \E e \in ElementIds : DeleteElement(e)
DoClear == Clear
DoAddRelationship == \E s \in RelIds, t \in RelTargets, ty \in RelTypes : AddRelationship(s, t, ty)
DoRemoveRelationship ==
    \E s \in RelIds, t \in RelIds, ty \in RelTypes \cup {Undefined} : RemoveRelationship(s, t, ty)
DoRemoveRelationshipsByType == \E e \in RelIds, ty \in RelTypes : RemoveRelationshipsByType(e, ty)
DoClearRelationships == \E e \in RelIds : ClearRelationships(e)

StoreNext ==
    \/ DoUpsert
    \/ DoDeleteElement
    \/ DoClear
    \/ DoAddRelationship
    \/ DoRemoveRelationship
    \/ DoRemoveRelationshipsByType
    \/ DoClearRelationships

StoreSpec == Init /\ [][StoreNext]_vars

\* --- the relationship graph: the whole relationship API, delete and clear, with
\* upserts that carry one shape of instance or none (type and namespace play no
\* part in the edges)
GraphUpsert ==
    \E e \in ElementIds : \E instance \in {NoInstance, Instance(e, "T1", "ns1")} :
        Upsert(e, instance, {}, {})

GraphNext ==
    \/ GraphUpsert
    \/ DoDeleteElement
    \/ DoClear
    \/ DoAddRelationship
    \/ DoRemoveRelationship
    \/ DoRemoveRelationshipsByType
    \/ DoClearRelationships

GraphSpec == Init /\ [][GraphNext]_vars

\* --- the dot hierarchy: instances arrive at any depth, with and without
\* ancestors stored, also under an id whose first segment is empty; elements are
\* deleted and single edges removed in between
HierarchyIds == {IdA, IdAB, IdABC, IdDotXY}
HierUpsert ==
    \E e \in HierarchyIds : \E instance \in InstanceInputs(e) : Upsert(e, instance, {}, {})
HierDelete == \E e \in {IdA, IdAB} : DeleteElement(e)
HierRemoveRelationship ==
    \E s \in RelIds, t \in RelIds : RemoveRelationship(s, t, Undefined)
\* a HasParent edge other than the one to the inferred parent
HierAddRelationship == AddRelationship(IdAB, IdABC, "HasParent")

HierarchyNext ==
    \/ HierUpsert
    \/ HierDelete
    \/ HierRemoveRelationship
    \/ HierAddRelationship

HierarchySpec == Init /\ [][HierarchyNext]_vars

\* --- the derived tree: only upserts that carry an instance, and deletes of
\* the ids that upserts can store (the inputs and their prefixes)
TreeIds == HierarchyIds \cup {inferParentId(e) : e \in {d \in HierarchyIds : Len(d) > 1}}
TreeUpsert ==
    \E e \in HierarchyIds : \E instance \in InstanceInputs(e) \ {NoInstance} :
        Upsert(e, instance, {}, {})
TreeDelete == \E e \in TreeIds : DeleteElement(e)

TreeNext ==
    \/ TreeUpsert
    \/ TreeDelete

TreeSpec == Init /\ [][TreeNext]_vars

\* --- fan-out: two subscriptions side by side, both created monitoring the same
\* element, each with its own SSE connections
FanoutOptions == {[monitoredItems |-> <<IdA>>]}
FanCreate == \E options \in FanoutOptions : Create(options, Len(SubOrder))
FanDelete == \E s \in SubIds : Delete(s)
FanUnregister == \E s \in SubIds : Unregister(s, <<IdA>>)
FanSync == \E s \in SubIds : Sync(s)
FanStream == \E s \in SubIds : Stream(s)
FanClose == \E c \in ConnIds : CloseEvent(c)
FanUpsert == \E failing \in SUBSET SubIds : Upsert(IdA, NoInstance, failing, {})

FanoutNext ==
    \/ FanCreate
    \/ FanDelete
    \/ FanUnregister
    \/ FanSync
    \/ FanStream
    \/ FanClose
    \/ FanUpsert

FanoutSpec == Init /\ [][FanoutNext]_vars

\* --- the life of one subscription with the result of every call observed:
\* `ok` is false where the method returns false or undefined (the routes
\* answer 404)
\* get(): the subscription, or undefined
Get(subscriptionId) ==
    /\ ret' = Ret("get", subscriptionId, MapHas(subscriptions, subscriptionId), <<>>)
    /\ UNCHANGED <<nextSeq>>
    /\ UNCHANGED subVars
    /\ UNCHANGED storeVars
    /\ UNCHANGED bridgeVars

DeleteObserved(subscriptionId) ==
    /\ delete(subscriptionId)
    /\ ret' = Ret("delete", subscriptionId, MapHas(subscriptions, subscriptionId), <<>>)

RegisterObserved(subscriptionId, elementIds) ==
    /\ register(subscriptionId, elementIds)
    /\ ret' = Ret("register", subscriptionId, MapHas(subscriptions, subscriptionId), <<>>)

UnregisterObserved(subscriptionId, elementIds) ==
    /\ unregister(subscriptionId, elementIds)
    /\ ret' = Ret("unregister", subscriptionId, MapHas(subscriptions, subscriptionId), <<>>)

StreamObserved(subscriptionId) ==
    /\ stream(subscriptionId)
    /\ ret' = Ret("attachSse", subscriptionId, MapHas(subscriptions, subscriptionId), <<>>)

LifeCreate == \E options \in FanoutOptions : Create(options, 1)
LifeGet == \E s \in SubIds : Get(s)
LifeDelete == \E s \in SubIds : DeleteObserved(s)
LifeRegister == \E s \in SubIds : RegisterObserved(s, <<IdA>>)
LifeUnregister == \E s \in SubIds : UnregisterObserved(s, <<IdA>>)
LifeSync == \E s \in SubIds : Sync(s)
LifeStream == \E s \in SubIds : StreamObserved(s)
LifeClose == \E c \in ConnIds : CloseEvent(c)
LifeUpsert == \E failing \in SUBSET SubIds : Upsert(IdA, NoInstance, failing, {})

LifecycleNext ==
    \/ LifeCreate
    \/ LifeGet
    \/ LifeDelete
    \/ LifeRegister
    \/ LifeUnregister
    \/ LifeSync
    \/ LifeStream
    \/ LifeClose
    \/ LifeUpsert

LifecycleSpec == Init /\ [][LifecycleNext]_vars

\* --- the SSE bindings through the manager's own methods: attachSse and
\* detachSse are called directly (no route in front of them), subscriptions
\* come and go, and writes fail
\* attachSse() with the reply of a new connection; `ok` is its boolean result
AttachSse(subscriptionId) ==
    LET used == Cardinality({c \in ConnIds : conn[c].st # "fresh"})
        reply == ConnOrder[used + 1]
    IN /\ used < Len(ConnOrder)
       /\ attachSse(subscriptionId, reply)
       /\ ret' = Ret("attachSse", subscriptionId, MapHas(subscriptions, subscriptionId), <<>>)
       /\ UNCHANGED <<subscriptions, issued, nextSeq, hist>>
       /\ UNCHANGED storeVars
       /\ UNCHANGED bridgeVars

\* detachSse() called with a subscription id
DetachSse(subscriptionId) ==
    /\ detachSse(subscriptionId)
    /\ ret' = NoRet
    /\ UNCHANGED <<subscriptions, conn, issued, nextSeq, hist>>
    /\ UNCHANGED storeVars
    /\ UNCHANGED bridgeVars

BindCreate == \E options \in FanoutOptions : Create(options, Len(SubOrder))
BindDelete == \E s \in SubIds : DeleteObserved(s)
BindAttach == \E s \in SubIds : AttachSse(s)
BindDetach == \E s \in SubIds : DetachSse(s)
BindUpsert == \E failing \in SUBSET SubIds : Upsert(IdA, NoInstance, failing, {})

BindingNext ==
    \/ BindCreate
    \/ BindDelete
    \/ BindAttach
    \/ BindDetach
    \/ BindUpsert

BindingSpec == Init /\ [][BindingNext]_vars

\* --- the change listeners of the store: observer functions are registered and
\* removed between upserts, and some of them throw
DoAddChangeListener == \E l \in ListenerIds : AddChangeListener(l)
DoRemoveChangeListener == \E l \in ListenerIds : RemoveChangeListener(l)
ObservedInputs == {<<IdA, NoInstance>>, <<IdAB, Instance(IdAB, "T1", "ns1")>>}
DoUpsertObserved ==
    \E input \in ObservedInputs, throwing \in SUBSET ListenerIds :
        Upsert(input[1], input[2], {}, throwing)

ListenerNext ==
    \/ DoAddChangeListener
    \/ DoRemoveChangeListener
    \/ DoUpsertObserved

ListenerSpec == Init /\ [][ListenerNext]_vars

\* --- the mapping engine: rules are added and removed, topics are matched
\* patterns: 'a/b', 'a/{x}', '{x}' and '{}' (braces around nothing are literal)
PatAB == <<"a", "/", "b">>
PatAX == <<"a", "/", "{", "x", "}">>
PatX == <<"{", "x", "}">>
PatBraces == <<"{", "}">>
Patterns == {PatAB, PatAX, PatX, PatBraces}
RuleIds == {"r1", "r2"}
RuleInputs == {Rule(id, pattern, "raw") : id \in RuleIds, pattern \in Patterns}
\* topics: every pattern read as a topic, and 'a/a', 'ab', 'a/b/a'
Topics == Patterns \cup {<<"a", "/", "a">>, <<"a", "b">>, <<"a", "/", "b", "/", "a">>}

AddRule(rule) ==
    /\ added < MaxRules
    /\ added' = added + 1
    /\ rules' = addRule(rules, rule, added + 1)
    /\ ret' = NoRet
    /\ UNCHANGED <<lastMatch, stats, types, answer>>
    /\ UNCHANGED mqttVars
    /\ UNCHANGED coreVars

\* addRules(config.mappings) at startup
AddRules(newRules) ==
    /\ added + Len(newRules) <= MaxRules
    /\ added' = added + Len(newRules)
    /\ rules' = addRules(rules, newRules, added + 1)
    /\ ret' = NoRet
    /\ UNCHANGED <<lastMatch, stats, types, answer>>
    /\ UNCHANGED mqttVars
    /\ UNCHANGED coreVars

RemoveRule(id) ==
    /\ rules' = removeRule(rules, id)
    /\ ret' = NoRet
    /\ UNCHANGED <<added, lastMatch, stats, types, answer>>
    /\ UNCHANGED mqttVars
    /\ UNCHANGED coreVars

\* match(topic); lastMatch observes the call and what it returned
Match(topic) ==
    /\ lastMatch' = [topic |-> topic, result |-> match(rules, topic)]
    /\ ret' = NoRet
    /\ UNCHANGED <<rules, added, stats, types, answer>>
    /\ UNCHANGED mqttVars
    /\ UNCHANGED coreVars

DoAddRule == \E rule \in RuleInputs : AddRule(rule)
DoRemoveRule == \E id \in RuleIds : RemoveRule(id)
DoMatch == \E topic \in Topics : Match(topic)

EngineNext ==
    \/ DoAddRule
    \/ DoRemoveRule
    \/ DoMatch

EngineSpec == Init /\ [][EngineNext]_vars

\* --- the message pipeline: rules with several codecs are added, an observer
\* function listens on the store, and messages arrive
HandlerConfigs ==
    {<<Rule("r1", PatAX, codec)>> : codec \in Codecs \cup {"nope"}}
    \cup {<<Rule("r2", PatAB, "json"), Rule("r1", PatAX, codec)>> : codec \in {"uint8", "boom"}}
HandlerTopics == {<<"a", "/", "a">>, <<"a", "/", "b">>, <<"a", "b">>}
\* the configured mappings are loaded once, at startup
PipeAddRules == \E list \in HandlerConfigs : added = 0 /\ AddRules(list)
PipeListen == AddChangeListener("L1")
PipeHandle == \E topic \in HandlerTopics, payload \in Payloads : Handle(topic, payload, {})

PipelineNext ==
    \/ PipeAddRules
    \/ PipeListen
    \/ PipeHandle

PipelineSpec == Init /\ [][PipelineNext]_vars

\* --- the MQTT client wrapper: the application connects, subscribes and
\* unsubscribes, the connection is lost and comes back
WrapperTopics == {<<"#">>, <<"a", "/", "+">>, <<"+">>}
DoSubscribe == \E topic \in WrapperTopics : Subscribe(topic)
DoUnsubscribe == \E topic \in WrapperTopics : Unsubscribe(topic)

MqttNext ==
    \/ Connect
    \/ OnConnect
    \/ OnReconnect
    \/ OnClose
    \/ Disconnect
    \/ DoSubscribe
    \/ DoUnsubscribe

MqttSpec == Init /\ [][MqttNext]_vars

\* --- the admin API on mapping rules while the MQTT connection comes and goes
AdminConnect == Connect
AdminOnConnect == OnConnect
AdminOnReconnect == OnReconnect
AdminOnClose == OnClose
DoPostMapping ==
    \E id \in RuleIds \cup {Undefined}, pattern \in Patterns : PostMapping(id, pattern, "json")
DoPutMapping == \E id \in RuleIds, pattern \in Patterns \cup {<<>>} : PutMapping(id, pattern)
DoDeleteMapping == \E id \in RuleIds : DeleteMapping(id)

AdminNext ==
    \/ AdminConnect
    \/ AdminOnConnect
    \/ AdminOnReconnect
    \/ AdminOnClose
    \/ DoPostMapping
    \/ DoPutMapping
    \/ DoDeleteMapping

AdminSpec == Init /\ [][AdminNext]_vars

\* --- the type catalogue of the store and DELETE /admin/objecttypes/:elementId
ObjectType(elementId, namespaceUri) ==
    [elementId |-> elementId, displayName |-> elementId, namespaceUri |-> namespaceUri]

\* getInstances: the instances stored under the given ids
getInstances(S, elementIds) ==
    {S.instances[id] : id \in {e \in elementIds : MapHas(S.instances, e)}}

getInstancesByType_None(S, typeId) == {}

\* getInstancesByType: read through the byType index
getInstancesByType(S, typeId) ==
    IF ~MapHas(S.byType, typeId) THEN {}
    ELSE getInstances(S, S.byType[typeId])

\* registerType / deleteType on the types map
registerType(catalogue, type) == MapSet(catalogue, type.elementId, type)
deleteType(catalogue, elementId) == MapDelete(catalogue, elementId)

RegisterType(type) ==
    /\ types' = registerType(types, type)
    /\ ret' = NoRet
    /\ UNCHANGED <<rules, added, lastMatch, stats, answer>>
    /\ UNCHANGED mqttVars
    /\ UNCHANGED coreVars

DeleteObjectType(elementId) ==
    /\ IF ~MapHas(types, elementId)
       THEN /\ answer' = Answer("DELETE /admin/objecttypes/:elementId", 404, <<>>)
            /\ UNCHANGED types
       ELSE IF Cardinality(getInstancesByType(Store, elementId)) > 0
       THEN /\ answer' = Answer("DELETE /admin/objecttypes/:elementId", 409, <<>>)
            /\ UNCHANGED types
       ELSE /\ answer' = Answer("DELETE /admin/objecttypes/:elementId", 204, <<>>)
            /\ types' = deleteType(types, elementId)
    /\ ret' = NoRet
    /\ UNCHANGED <<rules, added, lastMatch, stats>>
    /\ UNCHANGED mqttVars
    /\ UNCHANGED coreVars

\* instances of two types come and go (an upsert of a.b also stores the
\* placeholder a of type Placeholder) while types are registered and deleted
TypeIds == {"T1", "T2", "Placeholder"}
TypeInputs == {ObjectType("T1", "ns1"), ObjectType("T2", "ns2"), ObjectType("Placeholder", "ns1")}
TypeUpsert ==
    \E e \in {IdA, IdAB} : \E instance \in InstanceInputs(e) : Upsert(e, instance, {}, {})
TypeDeleteElement == \E e \in {IdA, IdAB} : DeleteElement(e)
TypeClear == Clear
DoRegisterType == \E type \in TypeInputs : RegisterType(type)
DoDeleteObjectType == \E id \in TypeIds : DeleteObjectType(id)

TypeNext ==
    \/ TypeUpsert
    \/ TypeDeleteElement
    \/ TypeClear
    \/ DoRegisterType
    \/ DoDeleteObjectType

TypeSpec == Init /\ [][TypeNext]_vars

\* --- POST /objects/related
\* the visited set of one request, with the elements in the order in which
\* collectRelated went on to read their relationships
Visited(set, expanded) == [set |-> set, expanded |-> expanded]
NoVisited == Visited({}, <<>>)

visitedHas_Never(visited, elementId) == FALSE

\* visited.has(elementId)
visitedHas(visited, elementId) == elementId \in visited.set

\* visited.add(elementId)
visitedAdd(visited, elementId) ==
    Visited(visited.set \cup {elementId}, Append(visited.expanded, elementId))

Collected(ids, visited) == [ids |-> ids, visited |-> visited]

RECURSIVE collectRelated(_, _, _, _, _, _)
RECURSIVE collectDeeper(_, _, _, _, _, _, _)

\* the loop over the direct targets from the i-th on: each result is pushed
\* onto allIds, the visited set is shared by all calls
collectDeeper(S, targetIds, i, typeId, maxDepth, currentDepth, acc) ==
    IF i > Len(targetIds) THEN acc
    ELSE LET deeper == collectRelated(S, targetIds[i], typeId, maxDepth,
                                      currentDepth + 1, acc.visited)
         IN collectDeeper(S, targetIds, i + 1, typeId, maxDepth, currentDepth,
                          Collected(acc.ids \o deeper.ids, deeper.visited))

collectRelated(S, elementId, typeId, maxDepth, currentDepth, visited) ==
    IF visitedHas(visited, elementId) THEN Collected(<<>>, visited)
    ELSE LET seen == visitedAdd(visited, elementId)
             directRels == getRelationships(S, elementId, typeId)
             targetIds == [i \in 1..Len(directRels) |-> directRels[i].targetElementId]
         IN IF maxDepth = 0 \/ currentDepth >= maxDepth
            THEN Collected(targetIds, seen)
            ELSE collectDeeper(S, targetIds, 1, typeId, maxDepth, currentDepth,
                               Collected(targetIds, seen))

\* the response: one object per collected id that has an instance
relatedObjects(S, relatedIds) ==
    LET HasInstance(targetId) == MapHas(S.instances, targetId)
    IN SelectSeq(relatedIds, HasInstance)

\* the route; NoId stands for a body without elementId
ObjectsRelated(elementId, relationshipTypeId, depth) ==
    /\ IF elementId = NoId
       THEN answer' = Answer("POST /objects/related", 400, <<>>)
       ELSE answer' = Answer("POST /objects/related", 200,
                             relatedObjects(Store,
                                 collectRelated(Store, elementId, relationshipTypeId,
                                                depth, 0, NoVisited).ids))
    /\ ret' = NoRet
    /\ UNCHANGED <<rules, added, lastMatch, stats, types>>
    /\ UNCHANGED mqttVars
    /\ UNCHANGED coreVars

\* the graph of a, a.b and a.b.c: upserts lay the HasParent / HasChildren
\* pairs (cycles of length two), added edges close a longer cycle and a second
\* path, and an edge added to a.b.c before its upsert has a target that is no
\* object
RelatedIds == {IdA, IdAB}
RelatedTypes == {Undefined, "HasChildren"}
Depths == 0..MaxDepth
RelatedUpsert == \E e \in {IdAB, IdABC} : Upsert(e, Instance(e, "T1", "ns1"), {}, {})
RelatedAddRelationship ==
    \E pair \in {<<IdA, IdABC>>, <<IdABC, IdA>>} :
        AddRelationship(pair[1], pair[2], "HasChildren")
RelatedDeleteElement == DeleteElement(IdAB)
DoObjectsRelated ==
    \E e \in RelatedIds \cup {NoId}, ty \in RelatedTypes, depth \in Depths :
        ObjectsRelated(e, ty, depth)

RelatedNext ==
    \/ RelatedUpsert
    \/ RelatedAddRelationship
    \/ RelatedDeleteElement
    \/ DoObjectsRelated

RelatedSpec == Init /\ [][RelatedNext]_vars

\* --- POST /objects/value
\* maxDepth of a request body that leaves it out
DefaultMaxDepth == 1

\* an instance that is a composition
Composition(elementId) == [Instance(elementId, "T1", "ns1") EXCEPT !.isComposition = TRUE]

ValueIds == {IdA, IdAB, IdABC}

\* buildComposedValue has no bound on its recursion other than maxDepth; a
\* path that is longer than the number of elements, and longer than any
\* maxDepth allows, repeats an element with maxDepth 0, from where the same
\* calls follow again without end, and the engine ends the request with
\* RangeError (maximum call stack size exceeded)
CallStackLimit == Cardinality(ValueIds) + MaxDepth

\* one key of a components object: the component, the level below the
\* requested element at which it stands, its value (Null if it has none), and
\* whether it was given as {value, components} with its own components
Component(elementId, level, value, nested) ==
    [elementId |-> elementId, level |-> level, value |-> value, nested |-> nested]

Composed(threw, components) == [threw |-> threw, components |-> components]

valueOf(S, elementId) == IF MapHas(S.values, elementId) THEN S.values[elementId].value ELSE Null

isComposition(S, elementId) == MapHas(S.instances, elementId) /\ S.instances[elementId].isComposition

RECURSIVE buildComposedValue(_, _, _, _)
RECURSIVE buildComponents(_, _, _, _, _, _)

\* the loop over the HasComponent edges from the i-th on; the components of a
\* nested child follow the child's own key
buildComponents(S, components, i, maxDepth, currentDepth, result) ==
    IF i > Len(components) \/ result.threw THEN result
    ELSE LET childId == components[i].targetElementId
             shouldRecurse == /\ isComposition(S, childId)
                              /\ (maxDepth = 0 \/ currentDepth + 1 < maxDepth - 1)
             nested == buildComposedValue(S, childId, maxDepth, currentDepth + 1)
             next ==
                 IF shouldRecurse
                 THEN IF nested.threw THEN Composed(TRUE, <<>>)
                      ELSE Composed(FALSE,
                               Append(result.components,
                                      Component(childId, currentDepth + 1, valueOf(S, childId), TRUE))
                               \o nested.components)
                 ELSE IF MapHas(S.values, childId)
                 THEN Composed(FALSE,
                          Append(result.components,
                                 Component(childId, currentDepth + 1, valueOf(S, childId), FALSE)))
                 ELSE result
         IN buildComponents(S, components, i + 1, maxDepth, currentDepth, next)

buildComposedValue(S, elementId, maxDepth, currentDepth) ==
    IF currentDepth >= CallStackLimit THEN Composed(TRUE, <<>>)
    ELSE buildComponents(S, getRelationships(S, elementId, "HasComponent"), 1,
                         maxDepth, currentDepth, Composed(FALSE, <<>>))

\* one element of the response array
ValueOf(S, elementId, composed, components) ==
    [elementId |-> elementId, value |-> valueOf(S, elementId),
     composed |-> composed, components |-> components]

RECURSIVE valuesFrom(_, _, _, _)
\* elementIds.map(...).filter(Boolean) from the i-th id on; threw when a call
\* of the callback threw
valuesFrom(S, elementIds, i, maxDepth) ==
    IF i > Len(elementIds) THEN Composed(FALSE, <<>>)
    ELSE LET id == elementIds[i]
             rest == valuesFrom(S, elementIds, i + 1, maxDepth)
             built == buildComposedValue(S, id, maxDepth, 0)
         IN IF ~MapHas(S.values, id) THEN rest
            ELSE IF isComposition(S, id) /\ maxDepth # 1
            THEN IF built.threw \/ rest.threw THEN Composed(TRUE, <<>>)
                 ELSE Composed(FALSE, <<ValueOf(S, id, TRUE, built.components)>> \o rest.components)
            ELSE IF rest.threw THEN rest
                 ELSE Composed(FALSE, <<ValueOf(S, id, FALSE, <<>>)>> \o rest.components)

\* the route, called with the fields of the request body: a body may leave
\* out maxDepth (then 1) and elementIds (then 400)
ObjectsValue(body) ==
    /\ IF "elementIds" \notin DOMAIN body
       THEN answer' = Answer("POST /objects/value", 400, <<>>)
       ELSE LET maxDepth == IF "maxDepth" \in DOMAIN body THEN body.maxDepth
                            ELSE DefaultMaxDepth
                result == valuesFrom(Store, body.elementIds, 1, maxDepth)
            IN IF result.threw
               THEN answer' = Answer("POST /objects/value", 500, <<>>)
               ELSE answer' = Answer("POST /objects/value", 200, result.components)
    /\ ret' = NoRet
    /\ UNCHANGED <<rules, added, lastMatch, stats, types>>
    /\ UNCHANGED mqttVars
    /\ UNCHANGED coreVars

\* compositions a and a.b and the plain element a.b.c, linked by HasComponent
\* edges downwards and, from a.b back to a, in a cycle
ValueUpsert ==
    \E e \in ValueIds :
        \E instance \in (IF e = IdABC THEN {NoInstance} ELSE {Composition(e)}) :
            Upsert(e, instance, {}, {})
ComponentEdges == {<<IdA, IdAB>>, <<IdAB, IdABC>>, <<IdAB, IdA>>}
ValueAddRelationship ==
    \E pair \in ComponentEdges : AddRelationship(pair[1], pair[2], "HasComponent")
ValueRemoveRelationship ==
    \E pair \in ComponentEdges : RemoveRelationship(pair[1], pair[2], "HasComponent")
ValueRequests == {<<IdA>>, <<IdAB, IdABC>>}
ValueBodies ==
    {[elementIds |-> elementIds, maxDepth |-> maxDepth] :
        elementIds \in ValueRequests, maxDepth \in Depths}
DefaultBodies == {[elementIds |-> elementIds] : elementIds \in ValueRequests}
DoObjectsValue ==
    \/ \E body \in ValueBodies : ObjectsValue(body)
    \/ \E body \in DefaultBodies : ObjectsValue(body)
    \/ ObjectsValue([maxDepth |-> 0])

ValueNext ==
    \/ ValueUpsert
    \/ ValueAddRelationship
    \/ ValueRemoveRelationship
    \/ DoObjectsValue

ValueSpec == Init /\ [][ValueNext]_vars

\* --- subscriptions with different monitored items side by side: one created
\* without items, one for a, one for a.b; no register or unregister, so a
\* subscription keeps the items it was created with
QuietOptions == {EmptyMap, [monitoredItems |-> <<IdA>>], [monitoredItems |-> <<IdAB>>]}
QuietCreate == \E options \in QuietOptions : Create(options, Len(SubOrder))
QuietStream == \E s \in SubIds : Stream(s)
QuietSync == \E s \in SubIds : Sync(s)
QuietUpsert ==
    \E e \in MonitoredIds, failing \in SUBSET SubIds : Upsert(e, NoInstance, failing, {})

QuietNext ==
    \/ QuietCreate
    \/ QuietStream
    \/ QuietSync
    \/ QuietUpsert

QuietSpec == Init /\ [][QuietNext]_vars

\* --- decomposition: one rule with decompose options is loaded at startup,
\* messages with object payloads arrive on topic a, and elements are deleted
\* from the store
PayloadB == Object(<<Scalar("b")>>, Undefined, <<>>)
PayloadBC == Object(<<Nested("b", Object(<<Scalar("c")>>, Undefined, <<>>)), Scalar("b.c")>>,
                    Undefined, <<>>)
PayloadPath == Object(<<Nested("b", Object(<<Scalar("c")>>, "KPI", <<"a">>))>>, Undefined, <<>>)
ObjectPayloads == {ObjectPayload(PayloadB), ObjectPayload(PayloadBC), ObjectPayload(PayloadPath)}
DecomposeConfigs ==
    {DecomposeConfig(TRUE, "auto", "dot-append", DefaultDecomposeDepth),
     DecomposeConfig(TRUE, "abelara", "path", 0),
     DecomposeConfig(TRUE, "flat", "path", 1),
     DecomposeConfig(FALSE, "auto", "dot-append", DefaultDecomposeDepth)}
DecomposeAddRules ==
    \E config \in DecomposeConfigs :
        added = 0 /\ AddRules(<<DecomposingRule("r1", PatX, "json", config)>>)
DecomposeHandle ==
    \E payload \in ObjectPayloads \cup {Payload(1, TRUE), Payload(1, FALSE)} :
        Handle(<<"a">>, payload, {})
DecomposeDelete == \E e \in {IdA, IdAB, IdABC, <<"a", "c">>} : DeleteElement(e)

DecomposeNext ==
    \/ DecomposeAddRules
    \/ DecomposeHandle
    \/ DecomposeDelete

DecomposeSpec == Init /\ [][DecomposeNext]_vars

\* ================================================================ claims

\* the values of a queue or frame list that belong to one elementId keep
\* the order of the upserts that produced them (value = upsert number)
OrderedPerElement(seq) ==
    \A i \in 1..Len(seq), j \in 1..Len(seq) :
        (i < j /\ seq[i].elementId = seq[j].elementId) => seq[i].value < seq[j].value

\* the last n elements of a sequence
LastN(seq, n) == SubSeq(seq, Len(seq) - n + 1, Len(seq))

Min(a, b) == IF a < b THEN a ELSE b

\* value v was written as a frame to some connection opened for subscription s
WrittenToSse(s, v) ==
    \E c \in ConnIds : conn[c].sub = s /\ SeqHas(conn[c].frames, Frame(v))

\* C1: for every subscription the length of its pendingQueue is at most its
\* queueHighWaterMark, whatever mark create() was given
C1_QueueBound ==
    \A s \in DOMAIN subscriptions :
        Len(subscriptions[s].pendingQueue) <= subscriptions[s].queueHighWaterMark

\* C2 (as claimed): every value notified to a live subscription has been written
\* to an SSE connection of it or is still in its queue for the next sync
C2_AtLeastOnce ==
    \A s \in DOMAIN subscriptions :
        \A i \in 1..Len(hist[s]) :
            \/ WrittenToSse(s, hist[s][i])
            \/ SeqHas(subscriptions[s].pendingQueue, hist[s][i])

\* C2 (amended): a notified value is written to SSE or still queued for the next
\* sync unless at least queueHighWaterMark values were notified after it since
\* the last sync (drop-oldest overflow evicted it)
C2_AtLeastOnceUnlessOverflow ==
    \A s \in DOMAIN subscriptions :
        \A i \in 1..Len(hist[s]) :
            \/ WrittenToSse(s, hist[s][i])
            \/ SeqHas(subscriptions[s].pendingQueue, hist[s][i])
            \/ Len(hist[s]) - i >= subscriptions[s].queueHighWaterMark

\* C2 witness: three values notified with no SSE write, mark 2: the last two are queued
C2_Witness ==
    \E s \in DOMAIN subscriptions :
        /\ subscriptions[s].queueHighWaterMark = 2
        /\ Len(hist[s]) = 3
        /\ ~WrittenToSse(s, hist[s][1])
        /\ subscriptions[s].pendingQueue = <<hist[s][2], hist[s][3]>>

\* C3: a connection that was attached and has neither been ended, closed nor
\* failed a write is the one bound to its subscription (a second attach ends the
\* first connection and the second stays bound)
C3_AttachedStaysBound ==
    \A c \in ConnIds :
        (conn[c].st = "open" /\ MapHas(subscriptions, conn[c].sub)) =>
            (MapHas(sseConnections, conn[c].sub) /\ sseConnections[conn[c].sub] = c)

\* C8: the queue equals the most recent min(n, queueHighWaterMark) of the n
\* values notified since the last sync, in arrival order
C8_DropOldest ==
    \A s \in DOMAIN subscriptions :
        subscriptions[s].pendingQueue =
            LastN(hist[s], Min(Len(hist[s]), subscriptions[s].queueHighWaterMark))

\* C9: sync on an existing subscription returns the whole queue in order and
\* leaves it empty, touching nothing else; on an absent one it returns undefined
\* and changes no state
C9_SyncDrains ==
    [][\A s \in SubIds :
          (ret'.op = "sync" /\ ret'.id = s) =>
              IF MapHas(subscriptions, s)
              THEN /\ ret'.ok
                   /\ ret'.vals = subscriptions[s].pendingQueue
                   /\ subscriptions' = [subscriptions EXCEPT ![s].pendingQueue = <<>>]
                   /\ UNCHANGED <<sseConnections, conn, issued, storeVars>>
              ELSE /\ ~ret'.ok
                   /\ ret'.vals = <<>>
                   /\ UNCHANGED <<subscriptions, sseConnections, conn, issued, storeVars>>]_vars

\* C9 witness: a sync has just returned two queued values and the queue is empty
C9_Witness ==
    /\ ret.op = "sync"
    /\ ret.ok
    /\ Len(ret.vals) = 2
    /\ MapHas(subscriptions, ret.id)
    /\ subscriptions[ret.id].pendingQueue = <<>>

\* C10: for any single elementId, the values in a pendingQueue and the frames
\* written to an SSE connection are in the order of the upsert calls
C10_PerElementOrder ==
    /\ \A s \in DOMAIN subscriptions : OrderedPerElement(subscriptions[s].pendingQueue)
    /\ \A c \in ConnIds : OrderedPerElement(conn[c].frames)

\* C10 witness: two values of one element both queued and both written as frames
C10_Witness ==
    \E s \in DOMAIN subscriptions, c \in ConnIds :
        /\ Len(subscriptions[s].pendingQueue) >= 2
        /\ subscriptions[s].pendingQueue[1].elementId = subscriptions[s].pendingQueue[2].elementId
        /\ Len(conn[c].frames) >= 2
        /\ conn[c].frames[1].elementId = conn[c].frames[2].elementId

\* relationships[s] holds the edge (s -> t, typeId)
HasEdge(s, t, typeId) ==
    MapHas(relationships, s) /\ SeqHas(relationships[s], Edge(t, typeId))

\* relationships[s] holds some edge with target t
PointsTo(s, t) ==
    /\ MapHas(relationships, s)
    /\ \E i \in 1..Len(relationships[s]) : relationships[s][i].targetElementId = t

\* C4: a HasParent edge (a -> b) exists if and only if a HasChildren edge
\* (b -> a) exists
C4_Bidirectional ==
    \A a \in ElementIds, b \in ElementIds :
        HasEdge(a, b, "HasParent") <=> HasEdge(b, a, "HasChildren")

\* C5 (as claimed): every stored instance with more than one segment has an
\* instance stored for every proper prefix
C5_ParentChain ==
    \A e \in DOMAIN instances :
        \A k \in 1..(Len(e) - 1) : MapHas(instances, SubSeq(e, 1, k))

\* C5 (amended): the parent chain is complete in every state in which no
\* delete() has removed an instance since construction or the last clear()
C5_ParentChainUnlessDeleted ==
    ~instanceDeleted =>
        \A e \in DOMAIN instances :
            \A k \in 1..(Len(e) - 1) : MapHas(instances, SubSeq(e, 1, k))

\* C5 witness: a real instance a.b.c above placeholders a.b and a, nothing deleted
C5_Witness ==
    /\ ~instanceDeleted
    /\ MapHas(instances, IdABC)
    /\ instances[IdABC].typeId # "Placeholder"
    /\ MapHas(instances, IdAB)
    /\ instances[IdAB].typeId = "Placeholder"
    /\ MapHas(instances, IdA)
    /\ instances[IdA].typeId = "Placeholder"

\* C6: s is in targetIndex[t] if and only if relationships[s] has an edge with
\* target t, and no empty reverse entry is kept
C6_ReverseIndexSound ==
    /\ \A s \in ElementIds, t \in ElementIds :
          (MapHas(targetIndex, t) /\ s \in targetIndex[t]) <=> PointsTo(s, t)
    /\ \A t \in DOMAIN targetIndex : targetIndex[t] # {} /\ targetIndex[t] \subseteq ElementIds
    /\ DOMAIN targetIndex \subseteq ElementIds
    /\ DOMAIN relationships \subseteq ElementIds

\* C6 witness: a source that lost one of two edges to the same target is still
\* indexed for it (one edge a.b -> a left, of a type upsert does not put first)
C6_Witness ==
    /\ MapHas(relationships, IdAB)
    /\ relationships[IdAB] = <<Edge(IdA, "HasChildren")>>
    /\ MapHas(targetIndex, IdA)
    /\ IdAB \in targetIndex[IdA]

\* C7: namespaceIndex[ns] holds exactly the ids whose current instance has
\* namespace ns, typeIndex[t] exactly the ids whose current instance has typeId t
C7_IndexSound ==
    /\ \A ns \in DOMAIN byNamespace :
          /\ byNamespace[ns] # {}
          /\ byNamespace[ns] = {e \in DOMAIN instances : instances[e].namespaceUri = ns}
    /\ \A e \in DOMAIN instances :
          /\ MapHas(byNamespace, instances[e].namespaceUri)
          /\ MapHas(byType, instances[e].typeId)
    /\ \A t \in DOMAIN byType :
          /\ byType[t] # {}
          /\ byType[t] = {e \in DOMAIN instances : instances[e].typeId = t}

\* C7 witness: a.b re-upserted with another namespace and type than the ones its
\* placeholder parent was created under
C7_Witness ==
    /\ MapHas(instances, IdAB)
    /\ instances[IdAB].namespaceUri = "ns2"
    /\ instances[IdAB].typeId = "T2"
    /\ MapHas(instances, IdA)
    /\ instances[IdA].typeId = "Placeholder"
    /\ instances[IdA].namespaceUri = "ns1"
    /\ byNamespace["ns1"] = {IdA}

\* number of entries of the listeners array that hold the function l
Registrations(l) == Cardinality({i \in 1..Len(listeners) : listeners[i] = l})

\* the calls function l received during the step, i.e. what its log gained
NewCalls(l) == SubSeq(heard'[l], Len(heard[l]) + 1, Len(heard'[l]))

\* C13: an upsert call is reported to every registered listener exactly once
\* (once for each entry of the listeners array), with the elementId, value and
\* instance of that call, within the upsert step, and after everything the
\* listener was told before (upsert order)
C13_ReportedOnceInOrder ==
    [][\A input \in ObservedInputs, throwing \in SUBSET ListenerIds :
          Upsert(input[1], input[2], {}, throwing) =>
              \A l \in ListenerIds :
                  /\ Len(heard'[l]) = Len(heard[l]) + Registrations(l)
                  /\ SubSeq(heard'[l], 1, Len(heard[l])) = heard[l]
                  /\ \A i \in 1..Len(NewCalls(l)) :
                        /\ NewCalls(l)[i].elementId = input[1]
                        /\ NewCalls(l)[i].value = values'[input[1]]
                        /\ NewCalls(l)[i].value.value = nextSeq
                        /\ NewCalls(l)[i].instance = input[2]
                  /\ \A i \in 1..Len(heard[l]) : heard[l][i].value.value < nextSeq]_vars

\* C13 witness: two registered observers have each been told of two successive
\* upserts, the second one with an instance
C13_Witness ==
    /\ listeners = <<WiredListener, "L1", "L2">>
    /\ Len(heard["L1"]) = 2
    /\ Len(heard["L2"]) = 2
    /\ heard["L1"][1].value.value = 1
    /\ heard["L1"][2].value.value = 2
    /\ heard["L1"][2].instance # NoInstance
    /\ heard["L2"][2] = heard["L1"][2]

\* C14: when a listener throws during an upsert, the value, the instance, its
\* index entries and its parent/child edges are stored all the same, and every
\* registered listener, the ones after the throwing one included, is called
C14_ListenerThrowCaught ==
    [][\A input \in ObservedInputs, throwing \in (SUBSET ListenerIds) \ {{}} :
          Upsert(input[1], input[2], {}, throwing) =>
              LET e == input[1]
                  instance == input[2]
              IN /\ MapHas(values', e)
                 /\ values'[e].value = nextSeq
                 /\ instance # NoInstance =>
                       /\ MapHas(instances', e)
                       /\ instances'[e] = instance
                       /\ MapHas(byNamespace', instance.namespaceUri)
                       /\ e \in byNamespace'[instance.namespaceUri]
                       /\ MapHas(byType', instance.typeId)
                       /\ e \in byType'[instance.typeId]
                       /\ Len(e) > 1 =>
                             /\ MapHas(instances', inferParentId(e))
                             /\ HasEdge(e, inferParentId(e), "HasParent")'
                             /\ HasEdge(inferParentId(e), e, "HasChildren")'
                 /\ \A l \in ListenerIds :
                       SeqHas(listeners, l) =>
                           /\ Len(heard'[l]) > Len(heard[l])
                           /\ heard'[l][Len(heard'[l])].value.value = nextSeq]_vars

\* C14 witness: L1, registered before L2, threw on an upsert with an instance,
\* L2 was called for the same upsert and the instance is stored
C14_Witness ==
    /\ listeners = <<WiredListener, "L1", "L2">>
    /\ Len(heard["L1"]) > 0
    /\ Len(heard["L2"]) > 0
    /\ heard["L1"][Len(heard["L1"])].threw
    /\ ~heard["L2"][Len(heard["L2"])].threw
    /\ heard["L1"][Len(heard["L1"])].value = heard["L2"][Len(heard["L2"])].value
    /\ heard["L1"][Len(heard["L1"])].instance # NoInstance
    /\ MapHas(instances, IdAB)

\* the last element of a non-empty sequence
Last(seq) == seq[Len(seq)]

\* C11: when the SSE write of a notification fails for a subscription, its
\* binding is removed, the notified value is the newest entry of its
\* pendingQueue, and the value is also the newest entry of the queue of every
\* other subscription monitoring the element, whose bindings are kept
C11_WriteFailureDetaches ==
    [][\A failing \in (SUBSET SubIds) \ {{}} :
          Upsert(IdA, NoInstance, failing, {}) =>
              /\ \A s \in failing :
                    /\ ~MapHas(sseConnections', s)
                    /\ MapHas(subscriptions', s)
                    /\ Len(subscriptions'[s].pendingQueue) > 0
                    /\ Last(subscriptions'[s].pendingQueue).value = nextSeq
              /\ \A s \in DOMAIN subscriptions :
                    IdA \in subscriptions[s].monitoredItems =>
                        /\ MapHas(subscriptions', s)
                        /\ Len(subscriptions'[s].pendingQueue) > 0
                        /\ Last(subscriptions'[s].pendingQueue).value = nextSeq
                        /\ Last(subscriptions'[s].pendingQueue).elementId = IdA
              /\ \A s \in (DOMAIN sseConnections) \ failing :
                    /\ MapHas(sseConnections', s)
                    /\ sseConnections'[s] = sseConnections[s]]_vars

\* C11 witness: the write to s1's connection has failed, s1 is unbound and holds
\* the value in its queue; s2 monitors the same element, holds the value too and
\* got it as a frame on its own connection
C11_Witness ==
    /\ conn["c1"].st = "failed"
    /\ conn["c1"].sub = "s1"
    /\ MapHas(subscriptions, "s1")
    /\ ~MapHas(sseConnections, "s1")
    /\ MapHas(subscriptions, "s2")
    /\ MapHas(sseConnections, "s2")
    /\ sseConnections["s2"] = "c2"
    /\ Len(subscriptions["s1"].pendingQueue) > 0
    /\ Len(subscriptions["s2"].pendingQueue) > 0
    /\ Last(subscriptions["s1"].pendingQueue) = Last(subscriptions["s2"].pendingQueue)
    /\ Len(conn["c2"].frames) > 0
    /\ Last(conn["c2"].frames) = Frame(Last(subscriptions["s1"].pendingQueue))
    /\ Len(conn["c1"].frames) = 0

\* subscription ids that were issued by create() and have been deleted
Deleted == issued \ DOMAIN subscriptions

\* C12: delete(id) ends the attached connection and removes binding and
\* subscription; for a deleted id get, sync, register, unregister and attachSse
\* report absence and store nothing, and no later step enqueues for it, binds a
\* connection to it or writes a frame to a connection that was opened for it
C12_DeleteRemoves ==
    [][/\ \A s \in SubIds :
            (ret'.op = "delete" /\ ret'.id = s) =>
                /\ ret'.ok = MapHas(subscriptions, s)
                /\ ~MapHas(subscriptions', s)
                /\ ~MapHas(sseConnections', s)
                /\ MapHas(sseConnections, s) => conn'[sseConnections[s]].st = "ended"
       /\ \A s \in Deleted :
            /\ ~MapHas(subscriptions', s)
            /\ ~MapHas(sseConnections', s)
            /\ (ret'.id = s /\ ret'.op \in {"get", "sync", "register", "unregister",
                                             "attachSse", "delete"}) =>
                   /\ ~ret'.ok
                   /\ ret'.vals = <<>>
                   /\ UNCHANGED <<subscriptions, sseConnections, conn>>
            /\ \A c \in ConnIds :
                  /\ conn[c].sub = s => conn'[c].frames = conn[c].frames
                  /\ conn'[c].sub = s => conn[c].sub = s]_vars

\* C12 witness: s1 was deleted while c1 was attached (c1 was ended, no second
\* connection was opened), an upsert came after c1's last frame, and a register
\* on s1 has just reported absence
C12_Witness ==
    /\ "s1" \in Deleted
    /\ conn["c1"].sub = "s1"
    /\ conn["c1"].st = "ended"
    /\ conn["c2"].st = "fresh"
    /\ Len(conn["c1"].frames) > 0
    /\ MapHas(values, IdA)
    /\ values[IdA].value > Last(conn["c1"].frames).value
    /\ ret.op = "register"
    /\ ret.id = "s1"
    /\ ~ret.ok

\* the edges of a list that do not point to x
WithoutTarget(rels, x) ==
    LET NotTo(r) == r.targetElementId # x
    IN SelectSeq(rels, NotTo)

\* C15: after delete(x), x has no value and no instance, no edge list and no
\* edge pointing to it, no targetIndex entry and no membership in a reverse set;
\* values and instances of the other elements are as before and the edge list of
\* every other source is what it was without its edges to x
C15_CascadeDelete ==
    [][\A x \in ElementIds :
          DeleteElement(x) =>
              /\ ~MapHas(values', x)
              /\ ~MapHas(instances', x)
              /\ ~MapHas(relationships', x)
              /\ \A s \in DOMAIN relationships' :
                    \A i \in 1..Len(relationships'[s]) :
                        relationships'[s][i].targetElementId # x
              /\ ~MapHas(targetIndex', x)
              /\ \A t \in DOMAIN targetIndex' : x \notin targetIndex'[t]
              /\ DOMAIN values' = (DOMAIN values) \ {x}
              /\ \A e \in DOMAIN values' : values'[e] = values[e]
              /\ DOMAIN instances' = (DOMAIN instances) \ {x}
              /\ \A e \in DOMAIN instances' : instances'[e] = instances[e]
              /\ \A s \in (DOMAIN relationships) \ {x} :
                    IF WithoutTarget(relationships[s], x) = <<>>
                    THEN ~MapHas(relationships', s)
                    ELSE /\ MapHas(relationships', s)
                         /\ relationships'[s] = WithoutTarget(relationships[s], x)
              /\ DOMAIN relationships' \subseteq DOMAIN relationships]_vars

\* C15 witness: the middle node a.b of the chain a, a.b, a.b.c was deleted; a and
\* a.b.c are still stored and the edges that linked them to a.b are gone
C15_Witness ==
    /\ instanceDeleted
    /\ ~MapHas(values, IdAB)
    /\ ~MapHas(instances, IdAB)
    /\ MapHas(instances, IdA)
    /\ MapHas(values, IdABC)
    /\ MapHas(instances, IdABC)
    /\ ~MapHas(relationships, IdABC)
    /\ ~MapHas(relationships, IdA)
    /\ targetIndex = EmptyMap

\* C16: delete(root) leaves the value and the instance of every descendant of
\* root (every id with root as a proper dot-prefix) stored as they were
C16_DeleteKeepsDescendants ==
    [][\A root \in ElementIds :
          DeleteElement(root) =>
              \A d \in ElementIds :
                  IsAncestorId(root, d) =>
                      /\ MapHas(values', d) <=> MapHas(values, d)
                      /\ MapHas(values, d) => values'[d] = values[d]
                      /\ MapHas(instances', d) <=> MapHas(instances, d)
                      /\ MapHas(instances, d) => instances'[d] = instances[d]]_vars

\* C16 witness: the root a was deleted and its child a.b and grandchild a.b.c
\* still have their values and instances
C16_Witness ==
    /\ instanceDeleted
    /\ ~MapHas(values, IdA)
    /\ ~MapHas(instances, IdA)
    /\ MapHas(values, IdAB)
    /\ MapHas(instances, IdAB)
    /\ MapHas(values, IdABC)
    /\ MapHas(instances, IdABC)

\* the prefix of k segments of an elementId
Prefix(e, k) == SubSeq(e, 1, k)

\* the stored instance and value of p are those of a placeholder created for a
\* child of namespace ns
IsPlaceholderOf(p, ns) ==
    /\ MapHas(instances, p)
    /\ instances[p].elementId = p
    /\ instances[p].typeId = "Placeholder"
    /\ instances[p].namespaceUri = ns
    /\ instances[p].displayName = p[Len(p)]
    /\ MapHas(values, p)
    /\ values[p].value = Null
    /\ values[p].quality = "uncertain"

\* p and its parent prefix hold the HasParent/HasChildren pair
LinkedToParent(p) ==
    /\ HasEdge(p, inferParentId(p), "HasParent")
    /\ HasEdge(inferParentId(p), p, "HasChildren")

\* the number of segments of the longest proper prefix of e that has an
\* instance, 0 when none has
NearestStored(e) ==
    IF \E k \in 1..(Len(e) - 1) : MapHas(instances, Prefix(e, k))
    THEN CHOOSE k \in 1..(Len(e) - 1) :
            /\ MapHas(instances, Prefix(e, k))
            /\ \A j \in (k + 1)..(Len(e) - 1) : ~MapHas(instances, Prefix(e, j))
    ELSE 0

\* C17 (as claimed): an upsert with instance makes every proper prefix that had
\* no instance a placeholder of the child's namespace and leaves every level
\* linked to its parent
C17_PlaceholderChain ==
    [][\A e \in HierarchyIds : \A instance \in InstanceInputs(e) \ {NoInstance} :
          Upsert(e, instance, {}, {}) =>
              /\ \A k \in 1..(Len(e) - 1) :
                    ~MapHas(instances, Prefix(e, k)) =>
                        IsPlaceholderOf(Prefix(e, k), instance.namespaceUri)'
              /\ \A k \in 2..Len(e) : LinkedToParent(Prefix(e, k))']_vars

\* C17 (amended): an upsert with instance makes a placeholder of the child's
\* namespace for every non-empty proper prefix longer than the longest prefix
\* already stored, links each of them and the element itself to its non-empty
\* parent, and creates nothing above the longest stored prefix
C17_PlaceholderChainBelowStored ==
    [][\A e \in HierarchyIds : \A instance \in InstanceInputs(e) \ {NoInstance} :
          Upsert(e, instance, {}, {}) =>
              /\ \A k \in (NearestStored(e) + 1)..(Len(e) - 1) :
                    IF Truthy(Prefix(e, k))
                    THEN IsPlaceholderOf(Prefix(e, k), instance.namespaceUri)'
                    ELSE ~MapHas(instances', Prefix(e, k))
              /\ \A k \in 2..Len(e) :
                    (k > NearestStored(e) /\ Truthy(Prefix(e, k - 1))) =>
                        LinkedToParent(Prefix(e, k))'
              /\ \A k \in 1..NearestStored(e) :
                    /\ MapHas(instances', Prefix(e, k)) <=> MapHas(instances, Prefix(e, k))
                    /\ MapHas(instances, Prefix(e, k)) =>
                          instances'[Prefix(e, k)] = instances[Prefix(e, k)]]_vars

\* C17 witness: a.b.c arrived in a store without a and a.b: both are placeholders
\* of its namespace and the chain a.b.c -> a.b -> a is linked both ways
C17_Witness ==
    /\ nextSeq = 2
    /\ MapHas(instances, IdABC)
    /\ instances[IdABC].typeId = "T2"
    /\ IsPlaceholderOf(IdAB, "ns2")
    /\ IsPlaceholderOf(IdA, "ns2")
    /\ LinkedToParent(IdABC)
    /\ LinkedToParent(IdAB)

\* the set of (source, target, type) edges held by a relationships map
EdgesOf(rel) ==
    UNION {{<<s, rel[s][i].targetElementId, rel[s][i].relationshipTypeId>> :
               i \in 1..Len(rel[s])} : s \in DOMAIN rel}

\* e holds a placeholder instance
IsPlaceholder(e) == MapHas(instances, e) /\ instances[e].typeId = "Placeholder"

\* the value, instance and index entries of e after upsert(e, v, instance) on a
\* placeholder: the new ones, and none left under the placeholder's type
ReplacedBy(e, instance) ==
    /\ values'[e].value = nextSeq
    /\ instances'[e] = instance
    /\ MapHas(byNamespace', instance.namespaceUri)
    /\ e \in byNamespace'[instance.namespaceUri]
    /\ \A ns \in (DOMAIN byNamespace') \ {instance.namespaceUri} : e \notin byNamespace'[ns]
    /\ MapHas(byType', instance.typeId)
    /\ e \in byType'[instance.typeId]
    /\ \A ty \in (DOMAIN byType') \ {instance.typeId} : e \notin byType'[ty]

\* C18 (as claimed): a real instance upserted over a placeholder replaces its
\* value, instance and index entries and leaves the set of edges of the store
\* as it was
C18_PlaceholderOverwrite ==
    [][\A e \in HierarchyIds : \A instance \in InstanceInputs(e) \ {NoInstance} :
          (IsPlaceholder(e) /\ Upsert(e, instance, {}, {})) =>
              /\ ReplacedBy(e, instance)
              /\ EdgesOf(relationships') = EdgesOf(relationships)]_vars

\* C18 (amended): the fields are replaced in every case; the set of edges is as
\* it was when the id has no parent prefix, or when its parent is stored, the
\* HasParent/HasChildren pair with that parent exists and the id has no other
\* HasParent edge
C18_PlaceholderOverwriteLinked ==
    [][\A e \in HierarchyIds : \A instance \in InstanceInputs(e) \ {NoInstance} :
          (IsPlaceholder(e) /\ Upsert(e, instance, {}, {})) =>
              /\ ReplacedBy(e, instance)
              /\ (\/ ~Truthy(inferParentId(e))
                  \/ /\ MapHas(instances, inferParentId(e))
                     /\ LinkedToParent(e)
                     /\ \A i \in 1..Len(relationships[e]) :
                           relationships[e][i].relationshipTypeId = "HasParent" =>
                               relationships[e][i].targetElementId = inferParentId(e))
                 => EdgesOf(relationships') = EdgesOf(relationships)]_vars

\* C18 witness: a.b.c arrived first and made a.b a placeholder, then the real
\* a.b arrived: it is stored and the chain a.b.c -> a.b -> a is linked as before
C18_Witness ==
    /\ nextSeq = 3
    /\ MapHas(values, IdABC)
    /\ values[IdABC].value = 1
    /\ MapHas(instances, IdAB)
    /\ instances[IdAB].typeId = "T1"
    /\ values[IdAB].value = 2
    /\ IsPlaceholder(IdA)
    /\ LinkedToParent(IdABC)
    /\ LinkedToParent(IdAB)
    /\ Cardinality(EdgesOf(relationships)) = 4

\* no edge list holds the same (target, type) twice
NoDuplicateEdges ==
    \A s \in DOMAIN relationships :
        \A i \in 1..Len(relationships[s]), j \in 1..Len(relationships[s]) :
            i # j => relationships[s][i] # relationships[s][j]

\* C19: addRelationship of an edge that exists changes neither relationships
\* nor targetIndex, and after every step no (source, target, type) occurs twice
C19_AddIdempotent ==
    [][/\ NoDuplicateEdges'
       /\ \A s \in RelIds, t \in RelTargets, ty \in RelTypes :
             (HasEdge(s, t, ty) /\ AddRelationship(s, t, ty)) =>
                 UNCHANGED <<relationships, targetIndex>>]_vars

\* C19 witness: upsert(a.b.c) added a -> a.b while creating the placeholders,
\* the later upsert of a.b added it again: a holds that edge once
C19_Witness ==
    /\ MapHas(values, IdABC)
    /\ values[IdABC].value = 1
    /\ MapHas(values, IdAB)
    /\ values[IdAB].value = 2
    /\ MapHas(instances, IdAB)
    /\ ~IsPlaceholder(IdAB)
    /\ MapHas(relationships, IdA)
    /\ relationships[IdA] = <<Edge(IdAB, "HasChildren")>>
    /\ MapHas(targetIndex, IdAB)
    /\ targetIndex[IdAB] = {IdA, IdABC}

\* C20: every elementId that was upserted and not deleted since holds exactly
\* the value of its most recent upsert
C20_LastKnownValue ==
    \A e \in DOMAIN lastUpserted :
        MapHas(values, e) /\ values[e] = lastUpserted[e]

\* C21: hasChildren(x) holds exactly when some stored element has x as its
\* parentId (the target of its first HasParent edge), for every id an edge can
\* name
C21_HasChildrenIffParentOf ==
    \A x \in TreeIds \cup DOMAIN targetIndex \cup DOMAIN relationships :
        hasChildren(Store, x) <=>
            \E c \in DOMAIN instances : getParentId(Store, c) = x

\* C21 witness: only a.b.c was upserted: it has no children, a.b and a have
C21_Witness ==
    /\ DOMAIN lastUpserted = {IdABC}
    /\ ~instanceDeleted
    /\ ~hasChildren(Store, IdABC)
    /\ hasChildren(Store, IdAB)
    /\ hasChildren(Store, IdA)
    /\ getParentId(Store, IdABC) = IdAB
    /\ getParentId(Store, IdAB) = IdA
    /\ getParentId(Store, IdA) = NoId

\* the rules of the engine whose pattern matches the topic
Matching(topic) == {i \in 1..Len(rules) : matchTopic(topic, rules[i].compiled).matched}

\* C22: match(topic) returns the matching rule inserted before every other
\* matching rule, and null exactly when no rule matches
C22_FirstInsertedWins ==
    [][\A topic \in Topics :
          Match(topic) =>
              /\ lastMatch'.result.found <=> Matching(topic) # {}
              /\ \A i \in Matching(topic) :
                    (\A j \in Matching(topic) : rules[i].at <= rules[j].at) =>
                        /\ lastMatch'.result.rule = rules[i].rule
                        /\ lastMatch'.result.captures
                              = matchTopic(topic, rules[i].compiled).captures]_vars

\* C22 witness: 'a/{x}' was inserted before 'a/b', and match('a/b') returned
\* the rule of 'a/{x}'
C22_Witness ==
    /\ Len(rules) = 2
    /\ rules[1].rule.topicPattern = PatAX
    /\ rules[2].rule.topicPattern = PatAB
    /\ rules[1].rule.id # rules[2].rule.id
    /\ lastMatch.topic = PatAB
    /\ lastMatch.result.found
    /\ lastMatch.result.rule = rules[1].rule

\* a pattern without placeholder
IsLiteral(pattern) == \A i \in 1..Len(pattern) : ~ParamAt(pattern, i)

\* C23 (as claimed): match(P) returns every rule of the engine whose pattern P
\* is a literal, with empty captures
C23_LiteralRoundTrip ==
    [][\A i \in 1..Len(rules) :
          (IsLiteral(rules[i].rule.topicPattern) /\ Match(rules[i].rule.topicPattern)) =>
              /\ lastMatch'.result.found
              /\ lastMatch'.result.rule = rules[i].rule
              /\ lastMatch'.result.captures = EmptyMap]_vars

\* C23 (amended): match(P) returns the rule of a literal pattern P with empty
\* captures provided no rule inserted before it matches P
C23_LiteralRoundTripUnshadowed ==
    [][\A i \in 1..Len(rules) :
          (/\ IsLiteral(rules[i].rule.topicPattern)
           /\ \A j \in 1..(i - 1) :
                 ~matchTopic(rules[i].rule.topicPattern, rules[j].compiled).matched
           /\ Match(rules[i].rule.topicPattern)) =>
              /\ lastMatch'.result.found
              /\ lastMatch'.result.rule = rules[i].rule
              /\ lastMatch'.result.captures = EmptyMap]_vars

\* C23 witness: the literal '{}' was inserted after 'a/{x}', which does not
\* match it, and match('{}') returned its rule without captures
C23_Witness ==
    /\ Len(rules) = 2
    /\ rules[1].rule.topicPattern = PatAX
    /\ rules[2].rule.topicPattern = PatBraces
    /\ lastMatch.topic = PatBraces
    /\ lastMatch.result = MatchResult(TRUE, rules[2].rule, EmptyMap)

\* the store, the listeners' logs and the subscription queues are as before
NothingStoredOrNotified ==
    /\ UNCHANGED <<values, instances, byNamespace, byType, relationships, targetIndex>>
    /\ UNCHANGED <<heard, subscriptions, conn, hist, lastUpserted>>

\* C24: a message that matches no rule changes only `received`; a matched
\* message whose decoded value is undefined counts as received, matched and
\* error, not as processed, and neither reaches the store and its listeners
C24_DroppedMessages ==
    [][\A topic \in HandlerTopics, payload \in Payloads :
          Handle(topic, payload, {}) =>
              /\ Matching(topic) = {} =>
                    /\ stats' = [stats EXCEPT !.received = @ + 1]
                    /\ NothingStoredOrNotified
              /\ \A i \in Matching(topic) :
                    (/\ \A j \in Matching(topic) : i <= j
                     /\ \/ rules[i].rule.codec \notin Codecs
                        \/ rules[i].rule.codec \in {"protobuf", "boom"}
                        \/ rules[i].rule.codec = "json" /\ ~payload.parses
                        \/ rules[i].rule.codec = "uint8" /\ payload.length = 0) =>
                        /\ stats'.errors = stats.errors + 1
                        /\ stats'.processed = stats.processed
                        /\ stats'.received = stats.received + 1
                        /\ NothingStoredOrNotified]_vars

\* C24 witness: with an observer listening, one message was stored, one
\* matched no rule and one failed to decode; the observer heard one call
C24_Witness ==
    /\ stats = [received |-> 3, matched |-> 2, processed |-> 1, decomposed |-> 0, errors |-> 1]
    /\ SeqHas(listeners, "L1")
    /\ Len(heard["L1"]) = 1
    /\ MapHas(values, heard["L1"][1].elementId)
    /\ values[heard["L1"][1].elementId] = heard["L1"][1].value

\* C25: when the connection comes up, every topic of the subscription set is
\* subscribed at the broker; only subscribe and unsubscribe change the set, so
\* it is the set of topics subscribed and not unsubscribed since, in whatever
\* connection state; and while connected the broker holds the whole set
C25_ResubscribeOnConnect ==
    [][/\ OnConnect =>
             /\ mqttSubscriptions \subseteq broker'.session
             /\ mqttSubscriptions # {} => broker'.received = mqttSubscriptions
       /\ \A topic \in WrapperTopics :
             /\ Subscribe(topic) => mqttSubscriptions' = mqttSubscriptions \cup {topic}
             /\ Unsubscribe(topic) => mqttSubscriptions' = mqttSubscriptions \ {topic}
       /\ (Connect \/ OnConnect \/ OnReconnect \/ OnClose \/ Disconnect) =>
             UNCHANGED mqttSubscriptions
       /\ state' = "connected" => mqttSubscriptions' \subseteq broker'.session]_vars

\* C25 witness: two topics were in the set when the connection came up, one
\* subscribe carried both, and the broker holds both
C25_Witness ==
    /\ state = "connected"
    /\ Cardinality(mqttSubscriptions) = 2
    /\ broker.received = mqttSubscriptions
    /\ broker.session = mqttSubscriptions

\* C26: whenever POST /admin/mappings answers 201, the topic derived from the
\* rule's pattern is in the wrapper's subscription set
C26_CreatedRuleSubscribed ==
    [][\A id \in RuleIds, pattern \in Patterns :
          (PostMapping(id, pattern, "json") /\ answer'.status = 201) =>
              mqttTopic(pattern) \in mqttSubscriptions']_vars

\* C27: whenever PUT /admin/mappings/:id changes the pattern of a rule, the
\* topic derived from the new pattern is in the wrapper's subscription set and
\* the topic derived from the old pattern stays in it
C27_UpdatedRuleSubscribed ==
    [][\A id \in RuleIds, pattern \in Patterns :
          (/\ PutMapping(id, pattern)
           /\ answer'.status = 200
           /\ getRule(rules, id).topicPattern # pattern) =>
              /\ mqttTopic(pattern) \in mqttSubscriptions'
              /\ mqttTopic(getRule(rules, id).topicPattern) \in mqttSubscriptions =>
                    mqttTopic(getRule(rules, id).topicPattern) \in mqttSubscriptions']_vars

\* the stored instances whose typeId is id
InstancesOfType(id) == {e \in DOMAIN instances : instances[e].typeId = id}

NoRepeat(seq) == \A i, j \in 1..Len(seq) : seq[i] = seq[j] => i = j

\* the targets of the edges stored for elementId, of the given type if one is given
DirectTargets(elementId, typeId) ==
    IF ~MapHas(relationships, elementId) THEN <<>>
    ELSE LET Wanted(r) == typeId = Undefined \/ r.relationshipTypeId = typeId
             edges == SelectSeq(relationships[elementId], Wanted)
         IN [i \in 1..Len(edges) |-> edges[i].targetElementId]

\* C29: on every relationship graph, cycles included, the traversal of
\* POST /objects/related ends having read the relationships of each element at
\* most once; with depth 0 it reads the start element only and collects exactly
\* the targets of its edges (of the requested type if one is given), and the
\* response holds those of them that are objects
C29_RelatedTerminates ==
    [][\A e \in RelatedIds, ty \in RelatedTypes, depth \in Depths :
          ObjectsRelated(e, ty, depth) =>
              LET r == collectRelated(Store, e, ty, depth, 0, NoVisited)
              IN /\ NoRepeat(r.visited.expanded)
                 /\ answer'.status = 200
                 /\ answer'.ids = relatedObjects(Store, r.ids)
                 /\ depth = 0 =>
                       /\ r.ids = DirectTargets(e, ty)
                       /\ r.visited.expanded = <<e>>]_vars

\* C29 witness: a request with a depth above 0 was answered on a graph with
\* the cycle a -> a.b -> a, and the answer goes beyond the direct targets
C29_Witness ==
    /\ answer.op = "POST /objects/related"
    /\ HasEdge(IdA, IdAB, "HasChildren")
    /\ HasEdge(IdAB, IdA, "HasParent")
    /\ Len(answer.ids) >= 3

\* C30: POST /objects/value always returns, also with maxDepth 0 on a store
\* whose HasComponent edges form a cycle; with maxDepth N > 1 no component
\* stands more than N levels below the requested element, and with maxDepth 1
\* (the default) the answer holds the requested elements' own values only
C30_ValueTerminates ==
    [][/\ \A body \in ValueBodies :
             ObjectsValue(body) =>
                 /\ answer'.status = 200
                 /\ \A i \in 1..Len(answer'.ids) :
                       /\ body.maxDepth = 1 => ~answer'.ids[i].composed
                       /\ body.maxDepth > 1 =>
                             \A k \in 1..Len(answer'.ids[i].components) :
                                 answer'.ids[i].components[k].level <= body.maxDepth
       /\ \A body \in DefaultBodies :
             ObjectsValue(body) =>
                 /\ answer'.status = 200
                 /\ \A i \in 1..Len(answer'.ids) : ~answer'.ids[i].composed]_vars

\* the frames written to the connections that were attached to subscription s
FramesOf(s) == [c \in {d \in ConnIds : conn[d].sub = s} |-> conn[c].frames]

\* C31: an upsert of elementId (which calls notifyChange) leaves every
\* subscription that does not monitor elementId as it was: same queue, same SSE
\* binding, no frame written; and a subscription without monitored items has
\* an empty queue, no frame on its stream, and its sync returns the empty list
C31_OnlyMonitoringNotified ==
    /\ [][\A e \in MonitoredIds, failing \in SUBSET SubIds :
             Upsert(e, NoInstance, failing, {}) =>
                 \A s \in DOMAIN subscriptions :
                     e \notin subscriptions[s].monitoredItems =>
                         /\ subscriptions'[s] = subscriptions[s]
                         /\ MapHas(sseConnections', s) = MapHas(sseConnections, s)
                         /\ FramesOf(s)' = FramesOf(s)]_vars
    /\ [](\A s \in DOMAIN subscriptions :
             subscriptions[s].monitoredItems = {} =>
                 /\ subscriptions[s].pendingQueue = <<>>
                 /\ \A c \in ConnIds : conn[c].sub = s => conn[c].frames = <<>>
                 /\ (ret.op = "sync" /\ ret.id = s) => ret.vals = <<>>)

\* C31 witness: a subscription without items has its stream attached and its
\* sync has just returned, while the other subscription holds a queued value
\* and got a frame for it
C31_Witness ==
    /\ ret.op = "sync" /\ ret.ok
    /\ MapHas(subscriptions, ret.id)
    /\ subscriptions[ret.id].monitoredItems = {}
    /\ MapHas(sseConnections, ret.id)
    /\ \E s \in DOMAIN subscriptions :
          /\ Len(subscriptions[s].pendingQueue) > 0
          /\ MapHas(sseConnections, s)
          /\ Len(conn[sseConnections[s]].frames) > 0

\* the decomposed entries of a message on topic a with the loaded rule
ChildrenOf(payload) ==
    IF Len(rules) = 0 \/ ~match(rules, <<"a">>).found THEN <<>>
    ELSE LET rule == match(rules, <<"a">>).rule
         IN decompose(rule.codec, payload, map(rule, <<"a">>, match(rules, <<"a">>).captures),
                      rule.decompose)

\* C32: a handled message leaves every decomposed child stored and linked
\* with its parent component by HasComponent (parent -> child) and ComponentOf
\* (child -> parent); and whatever messages and deletes came before, a
\* HasComponent edge p -> c is in the store exactly when the ComponentOf edge
\* c -> p is
C32_ComponentEdgesPaired ==
    /\ [][\A payload \in ObjectPayloads :
             Handle(<<"a">>, payload, {}) =>
                 \A i \in 1..Len(ChildrenOf(payload)) :
                     LET child == ChildrenOf(payload)[i]
                     IN /\ MapHas(values', child.elementId)
                        /\ instances'[child.elementId] = child.instance
                        /\ MapHas(relationships', child.parentComponentId)
                        /\ SeqHas(relationships'[child.parentComponentId],
                                  Edge(child.elementId, "HasComponent"))
                        /\ SeqHas(relationships'[child.elementId],
                                  Edge(child.parentComponentId, "ComponentOf"))]_vars
    /\ [](\A p \in DOMAIN relationships :
             \A i \in 1..Len(relationships[p]) :
                 LET c == relationships[p][i].targetElementId
                 IN /\ relationships[p][i].relationshipTypeId = "HasComponent" =>
                          HasEdge(c, p, "ComponentOf")
                    /\ relationships[p][i].relationshipTypeId = "ComponentOf" =>
                          HasEdge(c, p, "HasComponent"))

\* C32 witness: a nested payload was decomposed, a is linked with a.b and a.b
\* with a.b.c in both directions, after a delete had removed a.b before
C32_Witness ==
    /\ instanceDeleted
    /\ HasEdge(IdA, IdAB, "HasComponent") /\ HasEdge(IdAB, IdA, "ComponentOf")
    /\ HasEdge(IdAB, IdABC, "HasComponent") /\ HasEdge(IdABC, IdAB, "ComponentOf")

\* C33: the close event of a connection that is no longer the one bound to
\* its subscription (a later stream request replaced it) leaves the bindings
\* as they are: the newer connection stays attached
C33_StaleCloseKeepsNewer ==
    [][\A c \in ConnIds :
          (/\ MapHas(sseConnections, conn[c].sub)
           /\ sseConnections[conn[c].sub] # c
           /\ CloseEvent(c)) => sseConnections' = sseConnections]_vars

\* C34: every SSE binding belongs to a subscription that exists, whatever
\* creates, deletes, attaches, detaches and notifications (with failing
\* writes) came before; and attachSse for an absent subscription returns
\* false and leaves the bindings and the connections as they are
C34_BindingsOnlyForLive ==
    /\ [](\A s \in DOMAIN sseConnections : MapHas(subscriptions, s))
    /\ [][\A s \in SubIds :
             (~MapHas(subscriptions, s) /\ AttachSse(s)) =>
                 /\ ~ret'.ok
                 /\ sseConnections' = sseConnections
                 /\ conn' = conn]_vars

\* C34 witness: a subscription that had a connection bound was deleted (the
\* connection was ended) and an attachSse for its id has just returned
\* false, while the other subscription exists
C34_Witness ==
    /\ ret.op = "attachSse" /\ ~ret.ok
    /\ ~MapHas(subscriptions, ret.id)
    /\ \E c \in ConnIds : conn[c].sub = ret.id /\ conn[c].st = "ended"
    /\ \E s \in SubIds : MapHas(subscriptions, s)

\* C35: an upsert changes no value stored before under another elementId:
\* beside its own elementId it only adds values for ids that had none
C35_UpsertKeepsOtherValues ==
    [][\A e \in HierarchyIds :
          \A instance \in InstanceInputs(e) :
              Upsert(e, instance, {}, {}) =>
                  \A x \in DOMAIN values :
                      x # e => (MapHas(values', x) /\ values'[x] = values[x])]_vars

\* C36: whenever a step stores a new or different value for an elementId,
\* every observer function registered as change listener is called in that
\* step with this elementId and the value now stored
C36_EveryChangeReported ==
    [][\A x \in DOMAIN values' :
          (~MapHas(values, x) \/ values[x] # values'[x]) =>
              \A l \in ToSet(listeners) \cap ListenerIds :
                  \E i \in (Len(heard[l]) + 1)..Len(heard'[l]) :
                      /\ heard'[l][i].elementId = x
                      /\ heard'[l][i].value = values'[x]]_vars

\* C37: a delete of an elementId that has no stored value (it returns false)
\* leaves values, instances, both indices, relationships and targetIndex as
\* they were
C37_FailedDeleteChangesNothing ==
    [][\A e \in ElementIds :
          (~MapHas(values, e) /\ DeleteElement(e)) =>
              UNCHANGED <<values, instances, byNamespace, byType, relationships,
                          targetIndex>>]_vars

\* C38: a PUT /admin/mappings/:id whose body carries no topicPattern leaves
\* the answer of match as it was: for every topic the same rule id is
\* returned before and after the update
C38_UpdateKeepsMatchOrder ==
    [][\A id \in RuleIds :
          (getRule(rules, id) # NoRule /\ PutMapping(id, <<>>)) =>
              \A topic \in Topics :
                  /\ match(rules', topic).found = match(rules, topic).found
                  /\ match(rules, topic).found =>
                         match(rules', topic).rule.id = match(rules, topic).rule.id]_vars

\* C39: register and unregister change the monitoredItems of the subscription
\* and nothing else (its queue, its binding and its connections stay); a sync
\* returns what is queued, also for elements unregistered since; and an
\* upsert of an element the subscription does not monitor (it was
\* unregistered and not registered again) adds nothing to its queue and
\* writes no frame to its connections
C39_RegistrationLeavesQueue ==
    /\ [][\A s \in SubIds :
             (RegisterObserved(s, <<IdA>>) \/ UnregisterObserved(s, <<IdA>>)) =>
                 /\ DOMAIN subscriptions' = DOMAIN subscriptions
                 /\ \A x \in DOMAIN subscriptions :
                       /\ subscriptions'[x].pendingQueue = subscriptions[x].pendingQueue
                       /\ subscriptions'[x] =
                              [subscriptions[x] EXCEPT
                                  !.monitoredItems = subscriptions'[x].monitoredItems]
                 /\ UNCHANGED <<sseConnections, conn>>]_vars
    /\ [][\A s \in DOMAIN subscriptions :
             Sync(s) => ret'.vals = subscriptions[s].pendingQueue]_vars
    /\ [][\A failing \in SUBSET SubIds :
             Upsert(IdA, NoInstance, failing, {}) =>
                 \A s \in DOMAIN subscriptions :
                     IdA \notin subscriptions[s].monitoredItems =>
                         /\ subscriptions'[s] = subscriptions[s]
                         /\ sseConnections' = sseConnections
                         /\ FramesOf(s)' = FramesOf(s)]_vars

\* C39 witness: the first value was queued and written as a frame, the element
\* was unregistered, a second upsert left queue and stream alone, and the
\* sync that has just returned delivered the first value
C39_Witness ==
    /\ ret.op = "sync" /\ ret.ok
    /\ Len(ret.vals) = 1
    /\ ret.vals[1].value = 1
    /\ nextSeq = 3
    /\ MapHas(subscriptions, ret.id)
    /\ IdA \notin subscriptions[ret.id].monitoredItems
    /\ MapHas(sseConnections, ret.id)
    /\ Len(conn[sseConnections[ret.id]].frames) = 1

\* C40: after every handle call received >= matched and matched = processed
\* + errors; a handle call counts the message as received, and a matched
\* message as exactly one of processed and errors
C40_CountersBalance ==
    /\ [](/\ stats.received >= stats.matched
          /\ stats.matched = stats.processed + stats.errors)
    /\ [][\A topic \in HandlerTopics :
             \A payload \in Payloads :
                 Handle(topic, payload, {}) =>
                     /\ stats'.received = stats.received + 1
                     /\ stats'.matched - stats.matched =
                            IF match(rules, topic).found THEN 1 ELSE 0
                     /\ stats'.processed >= stats.processed
                     /\ stats'.errors >= stats.errors
                     /\ (stats'.processed - stats.processed)
                            + (stats'.errors - stats.errors)
                        = stats'.matched - stats.matched]_vars

\* C40 witness: one message matched no rule, one was stored and one failed
\* to decode
C40_Witness ==
    /\ stats.received = 3
    /\ stats.matched = 2
    /\ stats.processed = 1
    /\ stats.errors = 1

====
